---- MODULE Spec2Model ----
(***************************************************************************)
(* JSON-to-IR structural inference of j2s (src/src/codegen/types.rs) and   *)
(* the identifier conversion it relies on (src/src/codegen/utils.rs).      *)
(*                                                                         *)
(* Text is modelled as a sequence of one-character strings, so that the    *)
(* naming functions are computed character by character as the code does.  *)
(* A JSON value keeps its shape (null, bool, integer number, fractional    *)
(* number, string, array, object); the payload of a scalar is dropped      *)
(* because the converter only matches on the variant of a value.           *)
(***************************************************************************)
EXTENDS Integers, Sequences, FiniteSets, TLC

(***************************************************************************)
(* Characters: the part of the character set the model's texts are made of *)
(***************************************************************************)
LowerSeq ==
  << "a","b","c","d","e","f","g","h","i","j","k","l","m",
     "n","o","p","q","r","s","t","u","v","w","x","y","z" >>

UpperSeq ==
  << "A","B","C","D","E","F","G","H","I","J","K","L","M",
     "N","O","P","Q","R","S","T","U","V","W","X","Y","Z" >>

DigitSeq == << "0","1","2","3","4","5","6","7","8","9" >>

OtherChars == { "_", "-", " ", ".", "$" }

\* three characters outside ASCII, written by their code points: a lowercase
\* letter, its uppercase letter, and a numeric character (superscript two)
NonAsciiLower == "U+00E9"

NonAsciiUpper == "U+00C9"

NonAsciiNumeric == "U+00B2"

\* the greatest of a set of numbers, 0 for the empty set
Max(S) == IF S = {} THEN 0 ELSE CHOOSE x \in S : \A y \in S : y <= x

Range(s) == { s[i] : i \in DOMAIN s }

LowerChars == Range(LowerSeq)

UpperChars == Range(UpperSeq)

DigitChars == Range(DigitSeq)

Alphabet ==
  LowerChars \cup UpperChars \cup DigitChars \cup OtherChars
    \cup { NonAsciiLower, NonAsciiUpper, NonAsciiNumeric }

PosIn(s, c) == CHOOSE i \in DOMAIN s : s[i] = c

\* char::is_lowercase, is_uppercase, is_alphabetic, is_numeric, is_alphanumeric
is_lowercase == [c \in Alphabet |-> c \in LowerChars \cup { NonAsciiLower }]

is_uppercase == [c \in Alphabet |-> c \in UpperChars \cup { NonAsciiUpper }]

is_alphabetic == [c \in Alphabet |-> is_lowercase[c] \/ is_uppercase[c]]

is_numeric == [c \in Alphabet |-> c \in DigitChars \cup { NonAsciiNumeric }]

is_alphanumeric == [c \in Alphabet |-> is_alphabetic[c] \/ is_numeric[c]]

\* char::to_uppercase and char::to_lowercase
to_uppercase ==
  [c \in Alphabet |->
     IF c \in LowerChars THEN UpperSeq[PosIn(LowerSeq, c)]
     ELSE IF c = NonAsciiLower THEN NonAsciiUpper
     ELSE c]

to_lowercase ==
  [c \in Alphabet |->
     IF c \in UpperChars THEN LowerSeq[PosIn(UpperSeq, c)]
     ELSE IF c = NonAsciiUpper THEN NonAsciiLower
     ELSE c]

\* The code point of a character: the order of str::cmp is the order of the bytes
CharCode ==
  [c \in Alphabet |->
     IF c \in DigitChars THEN 47 + PosIn(DigitSeq, c)
     ELSE IF c \in UpperChars THEN 64 + PosIn(UpperSeq, c)
     ELSE IF c \in LowerChars THEN 96 + PosIn(LowerSeq, c)
     ELSE IF c = " " THEN 32
     ELSE IF c = "$" THEN 36
     ELSE IF c = "-" THEN 45
     ELSE IF c = "." THEN 46
     ELSE IF c = NonAsciiNumeric THEN 178
     ELSE IF c = NonAsciiUpper THEN 201
     ELSE IF c = NonAsciiLower THEN 233
     ELSE 95]

(***************************************************************************)
(* Strings                                                                 *)
(***************************************************************************)
\* str::cmp(a, b) = Less
StrLess(a, b) ==
  \E i \in 1..Len(b) :
     /\ \A j \in 1..(i - 1) : j <= Len(a) /\ a[j] = b[j]
     /\ \/ i = Len(a) + 1
        \/ i <= Len(a) /\ CharCode[a[i]] < CharCode[b[i]]

\* str::to_lowercase
StrToLower(s) == [i \in DOMAIN s |-> to_lowercase[s[i]]]

\* the decimal text of an unsigned number, as format!("{}", n) writes it
RECURSIVE ToDecimal(_)
ToDecimal(n) ==
  IF n < 10 THEN << DigitSeq[n + 1] >>
  ELSE ToDecimal(n \div 10) \o << DigitSeq[(n % 10) + 1] >>

\* Vec<String>::join(sep)
RECURSIVE Join(_, _)
Join(parts, sep) ==
  IF Len(parts) = 0 THEN << >>
  ELSE IF Len(parts) = 1 THEN parts[1]
  ELSE parts[1] \o sep \o Join(Tail(parts), sep)

\* str::trim_end_matches('_') and str::trim_matches('_')
RECURSIVE TrimEnd(_)
TrimEnd(s) ==
  IF Len(s) > 0 /\ s[Len(s)] = "_" THEN TrimEnd(SubSeq(s, 1, Len(s) - 1)) ELSE s

RECURSIVE TrimStart(_)
TrimStart(s) ==
  IF Len(s) > 0 /\ s[1] = "_" THEN TrimStart(Tail(s)) ELSE s

TrimBoth(s) == TrimStart(TrimEnd(s))

\* one pass of str::replace("__", "_"): non-overlapping matches, left to right
RECURSIVE ReplaceDouble(_)
ReplaceDouble(s) ==
  IF Len(s) < 2 THEN s
  ELSE IF s[1] = "_" /\ s[2] = "_" THEN << "_" >> \o ReplaceDouble(SubSeq(s, 3, Len(s)))
  ELSE << s[1] >> \o ReplaceDouble(Tail(s))

ContainsDouble(s) == \E i \in 1..(Len(s) - 1) : s[i] = "_" /\ s[i + 1] = "_"

\* while s.contains("__") { s = s.replace("__", "_") }
RECURSIVE CollapseUnderscores(_)
CollapseUnderscores(s) ==
  IF ContainsDouble(s) THEN CollapseUnderscores(ReplaceDouble(s)) ELSE s

\* sorted_keys.sort(): insertion into an ascending sequence
RECURSIVE InsertSorted(_, _)
InsertSorted(s, x) ==
  IF Len(s) = 0 THEN << x >>
  ELSE IF StrLess(x, s[1]) THEN << x >> \o s
  ELSE << s[1] >> \o InsertSorted(Tail(s), x)

RECURSIVE SortStrings(_)
SortStrings(s) ==
  IF Len(s) = 0 THEN << >> ELSE InsertSorted(SortStrings(Tail(s)), s[1])

(***************************************************************************)
(* NameConverter                                                           *)
(***************************************************************************)
GoKeywords ==
  {
    <<"b","r","e","a","k">>, <<"c","a","s","e">>, <<"c","h","a","n">>, <<"c","o","n","s","t">>,
    <<"c","o","n","t","i","n","u","e">>, <<"d","e","f","a","u","l","t">>, <<"d","e","f","e","r">>,
    <<"e","l","s","e">>, <<"f","a","l","l","t","h","r","o","u","g","h">>, <<"f","o","r">>,
    <<"f","u","n","c">>, <<"g","o">>, <<"g","o","t","o">>, <<"i","f">>, <<"i","m","p","o","r","t">>,
    <<"i","n","t","e","r","f","a","c","e">>, <<"m","a","p">>, <<"p","a","c","k","a","g","e">>,
    <<"r","a","n","g","e">>, <<"r","e","t","u","r","n">>, <<"s","e","l","e","c","t">>,
    <<"s","t","r","u","c","t">>, <<"s","w","i","t","c","h">>, <<"t","y","p","e">>, <<"v","a","r">>,
    <<"b","o","o","l">>, <<"b","y","t","e">>, <<"c","o","m","p","l","e","x","6","4">>,
    <<"c","o","m","p","l","e","x","1","2","8">>, <<"e","r","r","o","r">>, <<"f","l","o","a","t","3","2">>,
    <<"f","l","o","a","t","6","4">>, <<"i","n","t">>, <<"i","n","t","8">>, <<"i","n","t","1","6">>,
    <<"i","n","t","3","2">>, <<"i","n","t","6","4">>, <<"r","u","n","e">>, <<"s","t","r","i","n","g">>,
    <<"u","i","n","t">>, <<"u","i","n","t","8">>, <<"u","i","n","t","1","6">>, <<"u","i","n","t","3","2">>,
    <<"u","i","n","t","6","4">>, <<"u","i","n","t","p","t","r">>, <<"t","r","u","e">>,
    <<"f","a","l","s","e">>, <<"i","o","t","a">>, <<"n","i","l">>, <<"a","p","p","e","n","d">>,
    <<"c","a","p">>, <<"c","l","o","s","e">>, <<"c","o","m","p","l","e","x">>, <<"c","o","p","y">>,
    <<"d","e","l","e","t","e">>, <<"i","m","a","g">>, <<"l","e","n">>, <<"m","a","k","e">>, <<"n","e","w">>,
    <<"p","a","n","i","c">>, <<"p","r","i","n","t">>, <<"p","r","i","n","t","l","n">>, <<"r","e","a","l">>,
    <<"r","e","c","o","v","e","r">>
  }

RustKeywords ==
  {
    <<"a","s">>, <<"b","r","e","a","k">>, <<"c","o","n","s","t">>, <<"c","o","n","t","i","n","u","e">>,
    <<"c","r","a","t","e">>, <<"e","l","s","e">>, <<"e","n","u","m">>, <<"e","x","t","e","r","n">>,
    <<"f","a","l","s","e">>, <<"f","n">>, <<"f","o","r">>, <<"i","f">>, <<"i","m","p","l">>, <<"i","n">>,
    <<"l","e","t">>, <<"l","o","o","p">>, <<"m","a","t","c","h">>, <<"m","o","d">>, <<"m","o","v","e">>,
    <<"m","u","t">>, <<"p","u","b">>, <<"r","e","f">>, <<"r","e","t","u","r","n">>, <<"s","e","l","f">>,
    <<"S","e","l","f">>, <<"s","t","a","t","i","c">>, <<"s","t","r","u","c","t">>, <<"s","u","p","e","r">>,
    <<"t","r","a","i","t">>, <<"t","r","u","e">>, <<"t","y","p","e">>, <<"u","n","s","a","f","e">>,
    <<"u","s","e">>, <<"w","h","e","r","e">>, <<"w","h","i","l","e">>, <<"a","s","y","n","c">>,
    <<"a","w","a","i","t">>, <<"d","y","n">>, <<"a","b","s","t","r","a","c","t">>,
    <<"b","e","c","o","m","e">>, <<"b","o","x">>, <<"d","o">>, <<"f","i","n","a","l">>,
    <<"m","a","c","r","o">>, <<"o","v","e","r","r","i","d","e">>, <<"p","r","i","v">>,
    <<"t","y","p","e","o","f">>, <<"u","n","s","i","z","e","d">>, <<"v","i","r","t","u","a","l">>,
    <<"y","i","e","l","d">>, <<"t","r","y">>, <<"u","n","i","o","n">>, <<"r","a","w">>
  }

TypescriptKeywords ==
  {
    <<"b","r","e","a","k">>, <<"c","a","s","e">>, <<"c","a","t","c","h">>, <<"c","l","a","s","s">>,
    <<"c","o","n","s","t">>, <<"c","o","n","t","i","n","u","e">>, <<"d","e","b","u","g","g","e","r">>,
    <<"d","e","f","a","u","l","t">>, <<"d","e","l","e","t","e">>, <<"d","o">>, <<"e","l","s","e">>,
    <<"e","n","u","m">>, <<"e","x","p","o","r","t">>, <<"e","x","t","e","n","d","s">>,
    <<"f","a","l","s","e">>, <<"f","i","n","a","l","l","y">>, <<"f","o","r">>,
    <<"f","u","n","c","t","i","o","n">>, <<"i","f">>, <<"i","m","p","o","r","t">>, <<"i","n">>,
    <<"i","n","s","t","a","n","c","e","o","f">>, <<"n","e","w">>, <<"n","u","l","l">>,
    <<"r","e","t","u","r","n">>, <<"s","u","p","e","r">>, <<"s","w","i","t","c","h">>, <<"t","h","i","s">>,
    <<"t","h","r","o","w">>, <<"t","r","u","e">>, <<"t","r","y">>, <<"t","y","p","e","o","f">>,
    <<"v","a","r">>, <<"v","o","i","d">>, <<"w","h","i","l","e">>, <<"w","i","t","h">>, <<"a","s">>,
    <<"i","m","p","l","e","m","e","n","t","s">>, <<"i","n","t","e","r","f","a","c","e">>, <<"l","e","t">>,
    <<"p","a","c","k","a","g","e">>, <<"p","r","i","v","a","t","e">>,
    <<"p","r","o","t","e","c","t","e","d">>, <<"p","u","b","l","i","c">>, <<"s","t","a","t","i","c">>,
    <<"y","i","e","l","d">>, <<"a","n","y">>, <<"b","o","o","l","e","a","n">>,
    <<"c","o","n","s","t","r","u","c","t","o","r">>, <<"d","e","c","l","a","r","e">>, <<"g","e","t">>,
    <<"m","o","d","u","l","e">>, <<"r","e","q","u","i","r","e">>, <<"n","u","m","b","e","r">>,
    <<"s","e","t">>, <<"s","t","r","i","n","g">>, <<"s","y","m","b","o","l">>, <<"t","y","p","e">>,
    <<"f","r","o","m">>, <<"o","f">>, <<"n","a","m","e","s","p","a","c","e">>,
    <<"a","b","s","t","r","a","c","t">>, <<"a","s","y","n","c">>, <<"a","w","a","i","t">>, <<"i","s">>,
    <<"k","e","y","o","f">>, <<"r","e","a","d","o","n","l","y">>, <<"u","n","i","q","u","e">>,
    <<"i","n","f","e","r">>, <<"n","e","v","e","r">>, <<"o","b","j","e","c","t">>,
    <<"u","n","k","n","o","w","n">>
  }

PythonKeywords ==
  {
    <<"F","a","l","s","e">>, <<"N","o","n","e">>, <<"T","r","u","e">>, <<"a","n","d">>, <<"a","s">>,
    <<"a","s","s","e","r","t">>, <<"a","s","y","n","c">>, <<"a","w","a","i","t">>, <<"b","r","e","a","k">>,
    <<"c","l","a","s","s">>, <<"c","o","n","t","i","n","u","e">>, <<"d","e","f">>, <<"d","e","l">>,
    <<"e","l","i","f">>, <<"e","l","s","e">>, <<"e","x","c","e","p","t">>, <<"f","i","n","a","l","l","y">>,
    <<"f","o","r">>, <<"f","r","o","m">>, <<"g","l","o","b","a","l">>, <<"i","f">>,
    <<"i","m","p","o","r","t">>, <<"i","n">>, <<"i","s">>, <<"l","a","m","b","d","a">>,
    <<"n","o","n","l","o","c","a","l">>, <<"n","o","t">>, <<"o","r">>, <<"p","a","s","s">>,
    <<"r","a","i","s","e">>, <<"r","e","t","u","r","n">>, <<"t","r","y">>, <<"w","h","i","l","e">>,
    <<"w","i","t","h">>, <<"y","i","e","l","d">>, <<"m","a","t","c","h">>, <<"c","a","s","e">>,
    <<"t","y","p","e">>, <<"i","n","t">>, <<"f","l","o","a","t">>, <<"s","t","r">>, <<"b","o","o","l">>,
    <<"l","i","s","t">>, <<"d","i","c","t">>, <<"t","u","p","l","e">>, <<"s","e","t">>,
    <<"f","r","o","z","e","n","s","e","t">>, <<"b","y","t","e","s">>,
    <<"b","y","t","e","a","r","r","a","y">>, <<"m","e","m","o","r","y","v","i","e","w">>,
    <<"r","a","n","g","e">>, <<"e","n","u","m","e","r","a","t","e">>, <<"z","i","p">>, <<"m","a","p">>,
    <<"f","i","l","t","e","r">>, <<"s","o","r","t","e","d">>, <<"r","e","v","e","r","s","e","d">>,
    <<"l","e","n">>, <<"s","u","m">>, <<"m","i","n">>, <<"m","a","x">>, <<"a","b","s">>,
    <<"r","o","u","n","d">>, <<"p","o","w">>, <<"d","i","v","m","o","d">>,
    <<"i","s","i","n","s","t","a","n","c","e">>, <<"i","s","s","u","b","c","l","a","s","s">>,
    <<"h","a","s","a","t","t","r">>, <<"g","e","t","a","t","t","r">>, <<"s","e","t","a","t","t","r">>,
    <<"d","e","l","a","t","t","r">>, <<"c","a","l","l","a","b","l","e">>, <<"i","t","e","r">>,
    <<"n","e","x","t">>, <<"o","p","e","n">>, <<"p","r","i","n","t">>, <<"i","n","p","u","t">>,
    <<"r","e","p","r">>, <<"c","h","r">>, <<"o","r","d">>, <<"h","e","x">>, <<"o","c","t">>, <<"b","i","n">>
  }

get_reserved_keywords(language) ==
  CASE language = "go" -> GoKeywords
    [] language = "rust" -> RustKeywords
    [] language = "typescript" -> TypescriptKeywords
    [] language = "python" -> PythonKeywords
    [] OTHER -> {}

has_special_characters(input) ==
  \E i \in DOMAIN input : ~is_alphanumeric[input[i]] /\ input[i] # "_"

clean_string(input) ==
  TrimBoth([i \in DOMAIN input |->
              IF is_alphanumeric[input[i]] \/ input[i] = "_" THEN input[i] ELSE "_"])

capitalize_word(word) ==
  IF Len(word) = 0 THEN << >>
  ELSE << to_uppercase[word[1]] >> \o StrToLower(Tail(word))

\* input.split(|c| c == '_' || c == '-' || c == ' ').filter(|s| !s.is_empty())
RECURSIVE SplitParts(_, _, _)
SplitParts(input, i, cur) ==
  IF i > Len(input) THEN (IF Len(cur) = 0 THEN << >> ELSE << cur >>)
  ELSE IF input[i] \in { "_", "-", " " }
       THEN (IF Len(cur) = 0 THEN << >> ELSE << cur >>) \o SplitParts(input, i + 1, << >>)
       ELSE SplitParts(input, i + 1, Append(cur, input[i]))

\* the inner loop of to_pascal_case over the characters of one part
RECURSIVE PascalPart(_, _, _, _)
PascalPart(part, i, current_word, prev_was_lower) ==
  IF i > Len(part) THEN capitalize_word(current_word)
  ELSE LET c == part[i]
           boundary == is_uppercase[c] /\ prev_was_lower /\ Len(current_word) > 0
       IN  IF boundary
           THEN capitalize_word(current_word)
                  \o PascalPart(part, i + 1, << c >>, is_lowercase[c])
           ELSE PascalPart(part, i + 1, Append(current_word, c), is_lowercase[c])

RECURSIVE PascalParts(_)
PascalParts(parts) ==
  IF Len(parts) = 0 THEN << >>
  ELSE PascalPart(parts[1], 1, << >>, FALSE) \o PascalParts(Tail(parts))

to_pascal_case(input) ==
  IF Len(input) = 0 THEN << >> ELSE PascalParts(SplitParts(input, 1, << >>))

to_camel_case(input) ==
  IF Len(input) = 0 THEN << >>
  ELSE LET pascal == to_pascal_case(input)
       IN  IF Len(pascal) = 0 THEN pascal
           ELSE << to_lowercase[pascal[1]] >> \o Tail(pascal)

\* the loop of to_snake_case, before the underscores are cleaned up
RECURSIVE SnakeLoop(_, _, _)
SnakeLoop(input, i, result) ==
  IF i > Len(input) THEN result
  ELSE LET ch == input[i]
           r1 == IF is_uppercase[ch] /\ Len(result) > 0
                    /\ (i = Len(input) \/ is_lowercase[input[i + 1]])
                 THEN Append(result, "_") ELSE result
           r2 == IF ch \in { "-", " " } THEN Append(r1, "_")
                 ELSE Append(r1, to_lowercase[ch])
       IN  SnakeLoop(input, i + 1, r2)

to_snake_case(input) ==
  IF Len(input) = 0 THEN << >>
  ELSE TrimBoth(CollapseUnderscores(SnakeLoop(input, 1, << >>)))

FieldToken == << "f","i","e","l","d" >>

\* variant: sanitize_identifier that keeps a numeric first character as it is
sanitize_identifier_NoPrefix(input, keywords) ==
  IF Len(input) = 0 THEN FieldToken
  ELSE LET first == input[1]
           head == IF is_alphanumeric[first] \/ first = "_" THEN << first >>
                   ELSE << "_" >>
           rest == [i \in 1..(Len(input) - 1) |->
                      IF is_alphanumeric[input[i + 1]] \/ input[i + 1] = "_"
                      THEN input[i + 1] ELSE "_"]
           trimmed == TrimEnd(CollapseUnderscores(head \o rest))
           escaped == IF StrToLower(trimmed) \in keywords
                      THEN Append(trimmed, "_") ELSE trimmed
       IN  IF Len(escaped) = 0 \/ \A i \in DOMAIN escaped : escaped[i] = "_"
           THEN FieldToken ELSE escaped

sanitize_identifier(input, keywords) ==
  IF Len(input) = 0 THEN FieldToken
  ELSE LET first == input[1]
           head == IF is_alphabetic[first] \/ first = "_" THEN << first >>
                   ELSE IF is_numeric[first] THEN << "_", first >>
                   ELSE << "_" >>
           rest == [i \in 1..(Len(input) - 1) |->
                      IF is_alphanumeric[input[i + 1]] \/ input[i + 1] = "_"
                      THEN input[i + 1] ELSE "_"]
           trimmed == TrimEnd(CollapseUnderscores(head \o rest))
           escaped == IF StrToLower(trimmed) \in keywords
                      THEN Append(trimmed, "_") ELSE trimmed
       IN  IF Len(escaped) = 0 \/ \A i \in DOMAIN escaped : escaped[i] = "_"
           THEN FieldToken ELSE escaped

sanitize_identifier_for_language(input, language) ==
  sanitize_identifier(input, get_reserved_keywords(language))

convert_field_name(input, language) ==
  LET cleaned == IF has_special_characters(input) THEN clean_string(input) ELSE input
      converted == CASE language = "go" -> to_pascal_case(cleaned)
                     [] language = "typescript" -> to_camel_case(cleaned)
                     [] language \in { "rust", "python" } -> to_snake_case(cleaned)
                     [] OTHER -> cleaned
  IN  sanitize_identifier_for_language(converted, language)

convert_type_name(input, language) ==
  LET cleaned == IF has_special_characters(input) THEN clean_string(input) ELSE input
      converted == IF language \in { "go", "rust", "typescript", "python" }
                   THEN to_pascal_case(cleaned) ELSE cleaned
  IN  sanitize_identifier_for_language(converted, language)

(***************************************************************************)
(* serde_json::Value.  An object is a map ordered by key (k: the keys in   *)
(* ascending order, e: the values in the order of their keys); an array    *)
(* keeps its elements in e.                                                *)
(***************************************************************************)
JNull == [t |-> "Null", k |-> << >>, e |-> << >>]

JBool == [t |-> "Bool", k |-> << >>, e |-> << >>]

\* serde_json::Number: a non-negative integer that fits i64, one that only fits
\* u64, a negative integer, and a float
JInt == [t |-> "PosInt", k |-> << >>, e |-> << >>]

JBigInt == [t |-> "PosIntBig", k |-> << >>, e |-> << >>]

JNegInt == [t |-> "NegInt", k |-> << >>, e |-> << >>]

JFloat == [t |-> "Float", k |-> << >>, e |-> << >>]

IsNumber(v) == v.t \in { "PosInt", "PosIntBig", "NegInt", "Float" }

\* Number::is_i64 and Number::is_u64
is_i64(n) == n.t \in { "PosInt", "NegInt" }

is_u64(n) == n.t \in { "PosInt", "PosIntBig" }

JString == [t |-> "String", k |-> << >>, e |-> << >>]

JArray(elements) == [t |-> "Array", k |-> << >>, e |-> elements]

JObject(keys, values) == [t |-> "Object", k |-> keys, e |-> values]

\* obj[key]
ValueAt(obj, key) == obj.e[CHOOSE i \in DOMAIN obj.k : obj.k[i] = key]

(***************************************************************************)
(* FieldType, FieldDefinition, StructDefinition                            *)
(***************************************************************************)
TString == [kind |-> "String", name |-> << >>]

TInteger == [kind |-> "Integer", name |-> << >>]

TNumber == [kind |-> "Number", name |-> << >>]

TBoolean == [kind |-> "Boolean", name |-> << >>]

TAny == [kind |-> "Any", name |-> << >>]

Custom(type_name) == [kind |-> "Custom", name |-> type_name]

JsonNameKey == << "j","s","o","n","_","n","a","m","e" >>

\* FieldDefinition::new(..).optional(..).array(..)
NewField(json_name, code_name, field_type, is_optional, is_array, metadata) ==
  [json_name |-> json_name, code_name |-> code_name, field_type |-> field_type,
   is_optional |-> is_optional, is_array |-> is_array, metadata |-> metadata]

\* StructDefinition::new(name) with its fields and nested structs added
NewStruct(name, fields, nested_structs) ==
  [name |-> name, fields |-> fields, nested_structs |-> nested_structs]

(***************************************************************************)
(* JsonToIrConverter.  Every method takes the converter (self) and returns *)
(* it with its result: err is NoError for Ok(val) and the error otherwise, *)
(* in which case self is the converter as the `?` return left it.  h is    *)
(* the hash state of the run, which fixes the iteration order of the       *)
(* HashMaps the methods build.                                             *)
(***************************************************************************)
NoError == "Ok"

MaxDepthExceeded == "Maximum recursion depth exceeded"

ExpectedObject == "Expected JSON object for struct conversion"

DefaultMaxDepth == 20

\* JsonToIrConverter::with_max_depth(language, max_depth)
with_max_depth(language, max_depth) ==
  [language |-> language, max_depth |-> max_depth, current_depth |-> 0,
   generated_names |-> {}, current_path |-> << >>]

\* JsonToIrConverter::new(language)
new(language) == with_max_depth(language, DefaultMaxDepth)

Ret(self, err, val) == [self |-> self, err |-> err, val |-> val]

\* the ? operator: an Err returns from the caller at once, an Ok value goes on
Try(r, AndThen(_)) == IF r.err # NoError THEN r ELSE AndThen(r)

Reverse(s) == [i \in DOMAIN s |-> s[Len(s) + 1 - i]]

\* HashMap::iter(): the entries in an order that the hash state decides
HashIter(h, entries) == IF h = 0 THEN entries ELSE Reverse(entries)

\* HashMap::get: the position of the entry of a key, 0 when there is none
EntryPos(entries, key) ==
  IF \E i \in DOMAIN entries : entries[i].key = key
  THEN CHOOSE i \in DOMAIN entries : entries[i].key = key
  ELSE 0

\* variant: generate_nested_struct_name without the while loop
FirstFreeName_AsConverted(generated_names, converted_name, final_name, counter) == final_name

\* the while loop of generate_nested_struct_name
RECURSIVE FirstFreeName(_, _, _, _)
FirstFreeName(generated_names, converted_name, final_name, counter) ==
  IF final_name \in generated_names
  THEN FirstFreeName(generated_names, converted_name,
                     converted_name \o ToDecimal(counter), counter + 1)
  ELSE final_name

generate_nested_struct_name(self, field_name) ==
  LET name_parts == Append(self.current_path, field_name)
      base_name == IF Len(name_parts) > 3
                   THEN Join(SubSeq(name_parts, Len(name_parts) - 2, Len(name_parts)),
                             << "_" >>)
                   ELSE Join(name_parts, << "_" >>)
      converted_name == convert_type_name(base_name, self.language)
      final_name == FirstFreeName(self.generated_names, converted_name, converted_name, 1)
  IN  [self |-> [self EXCEPT !.generated_names = @ \cup { final_name }],
       name |-> final_name]

\* max_by_key(|(_, count)| *count) over the entries in iteration order: the
\* last of the entries with the greatest count
MaxByCount(entries) ==
  LET best == CHOOSE i \in DOMAIN entries :
                /\ \A j \in DOMAIN entries : entries[j].count <= entries[i].count
                /\ \A j \in DOMAIN entries :
                     entries[j].count = entries[i].count => j <= i
  IN  entries[best].key

\* variant: determine_common_primitive_type without the Number and Integer rule
determine_common_primitive_type_NoWiden(h, type_counts) ==
  LET types == { type_counts[i].key : i \in DOMAIN type_counts }
  IN  IF Cardinality(types) > 2 THEN TAny
      ELSE IF TAny \in types THEN TAny
      ELSE IF TString \in types /\ Cardinality(types) > 1 THEN TAny
      ELSE IF TBoolean \in types /\ (TNumber \in types \/ TInteger \in types) THEN TAny
      ELSE IF Len(type_counts) = 0 THEN TAny
      ELSE MaxByCount(HashIter(h, type_counts))

\* variant: determine_common_primitive_type without the String rule
determine_common_primitive_type_NoStringRule(h, type_counts) ==
  LET types == { type_counts[i].key : i \in DOMAIN type_counts }
  IN  IF Cardinality(types) > 2 THEN TAny
      ELSE IF TAny \in types THEN TAny
      ELSE IF TBoolean \in types /\ (TNumber \in types \/ TInteger \in types) THEN TAny
      ELSE IF TNumber \in types /\ TInteger \in types THEN TNumber
      ELSE IF Len(type_counts) = 0 THEN TAny
      ELSE MaxByCount(HashIter(h, type_counts))

\* variant: determine_common_primitive_type without the Boolean and number rule
determine_common_primitive_type_NoBooleanRule(h, type_counts) ==
  LET types == { type_counts[i].key : i \in DOMAIN type_counts }
  IN  IF Cardinality(types) > 2 THEN TAny
      ELSE IF TAny \in types THEN TAny
      ELSE IF TString \in types /\ Cardinality(types) > 1 THEN TAny
      ELSE IF TNumber \in types /\ TInteger \in types THEN TNumber
      ELSE IF Len(type_counts) = 0 THEN TAny
      ELSE MaxByCount(HashIter(h, type_counts))

determine_common_primitive_type(h, type_counts) ==
  LET types == { type_counts[i].key : i \in DOMAIN type_counts }
  IN  IF Cardinality(types) > 2 THEN TAny
      ELSE IF TAny \in types THEN TAny
      ELSE IF TString \in types /\ Cardinality(types) > 1 THEN TAny
      ELSE IF TBoolean \in types /\ (TNumber \in types \/ TInteger \in types) THEN TAny
      ELSE IF TNumber \in types /\ TInteger \in types THEN TNumber
      ELSE IF Len(type_counts) = 0 THEN TAny
      ELSE MaxByCount(HashIter(h, type_counts))

\* *element_types.entry(element_type).or_insert(0) += 1
CountType(element_types, element_type) ==
  LET p == EntryPos(element_types, element_type)
  IN  IF p = 0 THEN Append(element_types, [key |-> element_type, count |-> 1])
      ELSE [element_types EXCEPT ![p].count = @ + 1]

\* variant: a later occurrence refines a type that had become Any
MergeField_Refine(unified_fields, key, field_type, is_optional, is_array) ==
  LET p == EntryPos(unified_fields, key)
  IN  IF p = 0
      THEN Append(unified_fields,
                  [key |-> key, field_type |-> field_type,
                   is_optional |-> is_optional, is_array |-> is_array])
      ELSE [unified_fields EXCEPT
              ![p].field_type = IF @ = TAny THEN field_type
                                ELSE IF @ # field_type THEN TAny ELSE @,
              ![p].is_optional = @ \/ is_optional,
              ![p].is_array = @ \/ is_array]

\* variant: a later occurrence of a key overwrites the two flags
MergeField_Overwrite(unified_fields, key, field_type, is_optional, is_array) ==
  LET p == EntryPos(unified_fields, key)
  IN  IF p = 0
      THEN Append(unified_fields,
                  [key |-> key, field_type |-> field_type,
                   is_optional |-> is_optional, is_array |-> is_array])
      ELSE [unified_fields EXCEPT
              ![p].field_type = IF @ # field_type THEN TAny ELSE @,
              ![p].is_optional = is_optional,
              ![p].is_array = is_array]

\* the match on unified_fields.get_mut(key) in create_unified_struct_from_array
MergeField(unified_fields, key, field_type, is_optional, is_array) ==
  LET p == EntryPos(unified_fields, key)
  IN  IF p = 0
      THEN Append(unified_fields,
                  [key |-> key, field_type |-> field_type,
                   is_optional |-> is_optional, is_array |-> is_array])
      ELSE [unified_fields EXCEPT
              ![p].field_type = IF @ # field_type THEN TAny ELSE @,
              ![p].is_optional = @ \/ is_optional,
              ![p].is_array = @ \/ is_array]

\* sorted_fields.sort_by(|a, b| a.0.cmp(&b.0)) over entries with distinct keys
RECURSIVE InsertEntry(_, _)
InsertEntry(s, x) ==
  IF Len(s) = 0 THEN << x >>
  ELSE IF StrLess(x.key, s[1].key) THEN << x >> \o s
  ELSE << s[1] >> \o InsertEntry(Tail(s), x)

\* variant: the entries left in the iteration order of the map
SortEntries_Unsorted(s) == s

RECURSIVE SortEntries(_)
SortEntries(s) ==
  IF Len(s) = 0 THEN << >> ELSE InsertEntry(SortEntries(Tail(s)), s[1])

\* the loop that turns the sorted entries into the fields of the unified struct
UnifiedFields(sorted_fields, language) ==
  [i \in DOMAIN sorted_fields |->
     NewField(sorted_fields[i].key,
              convert_field_name(sorted_fields[i].key, language),
              sorted_fields[i].field_type,
              sorted_fields[i].is_optional,
              sorted_fields[i].is_array,
              {})]

\* the common and the union key sets of analyze_mixed_object_types: none is TRUE
\* while common_keys is None
RECURSIVE CollectKeys(_, _, _)
CollectKeys(arr, i, acc) ==
  IF i > Len(arr) THEN acc
  ELSE IF arr[i].t = "Object"
       THEN LET keys == Range(arr[i].k)
            IN  CollectKeys(arr, i + 1,
                            [all_keys |-> acc.all_keys \cup keys,
                             none |-> FALSE,
                             common_keys |-> IF acc.none THEN keys
                                             ELSE acc.common_keys \cap keys])
       ELSE CollectKeys(arr, i + 1, acc)

\* variant: any common key makes the objects similar
MostKeysCommon_AnyCommon(keys) == ~keys.none /\ keys.common_keys # {}

\* variant: half of the keys is enough
MostKeysCommon_AtLeastHalf(keys) ==
  /\ ~keys.none
  /\ keys.common_keys # {}
  /\ Cardinality(keys.common_keys) >= Cardinality(keys.all_keys) \div 2

\* the key sets before the first object of the array is seen
NoKeys == [all_keys |-> {}, none |-> TRUE, common_keys |-> {}]

\* the test of analyze_mixed_object_types: there are common keys, and more of
\* them than half of all keys
MostKeysCommon(keys) ==
  /\ ~keys.none
  /\ keys.common_keys # {}
  /\ Cardinality(keys.common_keys) > Cardinality(keys.all_keys) \div 2

RECURSIVE convert_object_to_struct(_, _, _, _)
RECURSIVE NestedObject(_, _, _, _)
RECURSIVE UnifiedItem(_, _, _, _)
RECURSIVE ObjectFieldsLoop(_, _, _, _, _, _, _)
RECURSIVE convert_value_to_field(_, _, _, _, _)
RECURSIVE process_json_type_with_value(_, _, _, _, _)
RECURSIVE analyze_array_element_type(_, _, _, _, _)
RECURSIVE ArrayElementsLoop(_, _, _, _, _, _, _)
RECURSIVE analyze_mixed_object_types(_, _, _, _, _)
RECURSIVE create_unified_struct_from_array(_, _, _, _)
RECURSIVE UnifiedLoop(_, _, _, _, _, _, _)

\* variant: the guard with > in place of >=
DepthLimitReached_Gt(self) == self.current_depth > self.max_depth

\* the guard of convert_object_to_struct
DepthLimitReached(self) == self.current_depth >= self.max_depth

\* the for loop of convert_object_to_struct over the sorted keys
ObjectFieldsLoop(h, self, obj, sorted_keys, i, fields, nested_structs) ==
  IF i > Len(sorted_keys)
  THEN Ret(self, NoError, [fields |-> fields, nested_structs |-> nested_structs])
  ELSE Try(convert_value_to_field(
             h, [self EXCEPT !.current_path = Append(@, sorted_keys[i])],
             sorted_keys[i], ValueAt(obj, sorted_keys[i]), nested_structs),
           LAMBDA r :
             ObjectFieldsLoop(
               h,
               [r.self EXCEPT !.current_path = SubSeq(@, 1, Len(@) - 1)],
               obj, sorted_keys, i + 1,
               Append(fields, r.val.field), r.val.nested_structs))

\* variant: convert_object_to_struct without `self.current_depth -= 1`
convert_object_to_struct_NoDecrement(h, self, json_value, struct_name) ==
  IF DepthLimitReached(self) THEN Ret(self, MaxDepthExceeded, << >>)
  ELSE IF json_value.t # "Object" THEN Ret(self, ExpectedObject, << >>)
  ELSE Try(ObjectFieldsLoop(h, [self EXCEPT !.current_depth = @ + 1], json_value,
                            SortStrings(json_value.k), 1, << >>, << >>),
           LAMBDA r :
             Ret(r.self, NoError,
                 NewStruct(struct_name, r.val.fields, r.val.nested_structs)))

convert_object_to_struct(h, self, json_value, struct_name) ==
  IF DepthLimitReached(self) THEN Ret(self, MaxDepthExceeded, << >>)
  ELSE IF json_value.t # "Object" THEN Ret(self, ExpectedObject, << >>)
  ELSE Try(ObjectFieldsLoop(h, [self EXCEPT !.current_depth = @ + 1], json_value,
                            SortStrings(json_value.k), 1, << >>, << >>),
           LAMBDA r :
             Ret([r.self EXCEPT !.current_depth = @ - 1], NoError,
                 NewStruct(struct_name, r.val.fields, r.val.nested_structs)))

\* variant: is_optional of convert_value_to_field without the Value::Array arm
convert_value_to_field_NullOnly(h, self, field_name, value, nested_structs) ==
  Try(process_json_type_with_value(h, self, value, field_name, nested_structs),
      LAMBDA r :
        Ret(r.self, NoError,
            [field |-> NewField(field_name,
                                convert_field_name(field_name, self.language),
                                r.val.field_type,
                                value.t = "Null",
                                r.val.is_array,
                                { << JsonNameKey, field_name >> }),
             nested_structs |-> r.val.nested_structs]))

convert_value_to_field(h, self, field_name, value, nested_structs) ==
  Try(process_json_type_with_value(h, self, value, field_name, nested_structs),
      LAMBDA r :
        Ret(r.self, NoError,
            [field |-> NewField(field_name,
                                convert_field_name(field_name, self.language),
                                r.val.field_type,
                                CASE value.t = "Null" -> TRUE
                                  [] value.t = "Array" ->
                                       \E i \in DOMAIN value.e : value.e[i].t = "Null"
                                  [] OTHER -> FALSE,
                                r.val.is_array,
                                { << JsonNameKey, field_name >> }),
             nested_structs |-> r.val.nested_structs]))

\* variant: the Value::Number arm without `|| n.is_u64()`
number_type_I64Only(n) == IF is_i64(n) THEN TInteger ELSE TNumber

\* the Value::Number arm of process_json_type_with_value
number_type(n) == IF is_i64(n) \/ is_u64(n) THEN TInteger ELSE TNumber

TypeRet(self, field_type, is_array, nested_structs) ==
  Ret(self, NoError,
      [field_type |-> field_type, is_array |-> is_array,
       nested_structs |-> nested_structs])

\* the Value::Object arm of process_json_type_with_value once the name is made:
\* g is the converter with the name registered, and the name
NestedObject(h, g, json_value, nested_structs) ==
  Try(convert_object_to_struct(h, g.self, json_value, g.name),
      LAMBDA r :
        TypeRet(r.self, Custom(g.name), FALSE, Append(nested_structs, r.val)))

\* variant: process_json_type_with_value without the `obj.is_empty()` branch
process_json_type_with_value_NoEmptyCheck(h, self, json_value, field_name, nested_structs) ==
  CASE json_value.t = "Array" ->
         IF Len(json_value.e) = 0 THEN TypeRet(self, TAny, TRUE, nested_structs)
         ELSE Try(analyze_array_element_type(h, self, json_value.e, field_name,
                                             nested_structs),
                  LAMBDA r :
                    TypeRet(r.self, r.val.field_type, TRUE, r.val.nested_structs))
    [] json_value.t = "Object" ->
         NestedObject(h, generate_nested_struct_name(self, field_name), json_value,
                      nested_structs)
    [] json_value.t = "String" -> TypeRet(self, TString, FALSE, nested_structs)
    [] IsNumber(json_value) -> TypeRet(self, number_type(json_value), FALSE, nested_structs)
    [] json_value.t = "Bool" -> TypeRet(self, TBoolean, FALSE, nested_structs)
    [] json_value.t = "Null" -> TypeRet(self, TAny, FALSE, nested_structs)

process_json_type_with_value(h, self, json_value, field_name, nested_structs) ==
  CASE json_value.t = "Array" ->
         IF Len(json_value.e) = 0 THEN TypeRet(self, TAny, TRUE, nested_structs)
         ELSE Try(analyze_array_element_type(h, self, json_value.e, field_name,
                                             nested_structs),
                  LAMBDA r :
                    TypeRet(r.self, r.val.field_type, TRUE, r.val.nested_structs))
    [] json_value.t = "Object" ->
         IF Len(json_value.k) = 0 THEN TypeRet(self, TAny, FALSE, nested_structs)
         ELSE NestedObject(h, generate_nested_struct_name(self, field_name),
                           json_value, nested_structs)
    [] json_value.t = "String" -> TypeRet(self, TString, FALSE, nested_structs)
    [] IsNumber(json_value) -> TypeRet(self, number_type(json_value), FALSE, nested_structs)
    [] json_value.t = "Bool" -> TypeRet(self, TBoolean, FALSE, nested_structs)
    [] json_value.t = "Null" -> TypeRet(self, TAny, FALSE, nested_structs)

\* variant: the for loop that counts an element that is an array as Any
ArrayElementsLoop_InnerArraysAny(h, self, arr, field_name, index, acc, nested_structs) ==
  IF index >= Len(arr)
  THEN Ret(self, NoError, [acc EXCEPT !.nested_structs = nested_structs])
  ELSE Try(process_json_type_with_value(
             h, self, arr[index + 1], field_name \o << "_" >> \o ToDecimal(index),
             nested_structs),
           LAMBDA r :
             ArrayElementsLoop(
               h, r.self, arr, field_name, index + 1,
               [acc EXCEPT
                  !.element_types = CountType(@, IF r.val.is_array THEN TAny
                                                 ELSE r.val.field_type),
                  !.has_objects = @ \/ r.val.field_type.kind = "Custom",
                  !.has_primitives = @ \/ r.val.field_type.kind # "Custom"],
               r.val.nested_structs))

\* the for loop of analyze_array_element_type; index counts from 0
ArrayElementsLoop(h, self, arr, field_name, index, acc, nested_structs) ==
  IF index >= Len(arr)
  THEN Ret(self, NoError, [acc EXCEPT !.nested_structs = nested_structs])
  ELSE Try(process_json_type_with_value(
             h, self, arr[index + 1], field_name \o << "_" >> \o ToDecimal(index),
             nested_structs),
           LAMBDA r :
             ArrayElementsLoop(
               h, r.self, arr, field_name, index + 1,
               [acc EXCEPT
                  !.element_types = CountType(@, r.val.field_type),
                  !.has_objects = @ \/ r.val.field_type.kind = "Custom",
                  !.has_primitives = @ \/ r.val.field_type.kind # "Custom"],
               r.val.nested_structs))

\* variant: analyze_array_element_type that counts the array as a level
analyze_array_element_type_Counted(h, self, arr, field_name, nested_structs) ==
  IF Len(arr) = 0 THEN TypeRet(self, TAny, FALSE, nested_structs)
  ELSE Try(ArrayElementsLoop(h, [self EXCEPT !.current_depth = @ + 1], arr, field_name, 0,
                             [element_types |-> << >>, has_objects |-> FALSE,
                              has_primitives |-> FALSE, nested_structs |-> << >>],
                             nested_structs),
           LAMBDA r :
             IF Len(r.val.element_types) = 1
             THEN TypeRet(r.self, HashIter(h, r.val.element_types)[1].key, FALSE,
                          r.val.nested_structs)
             ELSE IF r.val.has_objects /\ r.val.has_primitives
                  THEN TypeRet(r.self, TAny, FALSE, r.val.nested_structs)
             ELSE IF r.val.has_objects
                  THEN analyze_mixed_object_types(h, r.self, arr, field_name,
                                                  r.val.nested_structs)
             ELSE TypeRet(r.self,
                          determine_common_primitive_type(h, r.val.element_types),
                          FALSE, r.val.nested_structs))

analyze_array_element_type(h, self, arr, field_name, nested_structs) ==
  IF Len(arr) = 0 THEN TypeRet(self, TAny, FALSE, nested_structs)
  ELSE Try(ArrayElementsLoop(h, self, arr, field_name, 0,
                             [element_types |-> << >>, has_objects |-> FALSE,
                              has_primitives |-> FALSE, nested_structs |-> << >>],
                             nested_structs),
           LAMBDA r :
             IF Len(r.val.element_types) = 1
             THEN TypeRet(r.self, HashIter(h, r.val.element_types)[1].key, FALSE,
                          r.val.nested_structs)
             ELSE IF r.val.has_objects /\ r.val.has_primitives
                  THEN TypeRet(r.self, TAny, FALSE, r.val.nested_structs)
             ELSE IF r.val.has_objects
                  THEN analyze_mixed_object_types(h, r.self, arr, field_name,
                                                  r.val.nested_structs)
             ELSE TypeRet(r.self,
                          determine_common_primitive_type(h, r.val.element_types),
                          FALSE, r.val.nested_structs))

\* variant: the unified struct is made and not pushed
UnifiedItem_NoPush(h, g, arr, nested_structs) ==
  Try(create_unified_struct_from_array(h, g.self, arr, g.name),
      LAMBDA r : TypeRet(r.self, Custom(g.name), FALSE, nested_structs))

\* the unified struct of analyze_mixed_object_types once the name is made
UnifiedItem(h, g, arr, nested_structs) ==
  Try(create_unified_struct_from_array(h, g.self, arr, g.name),
      LAMBDA r :
        TypeRet(r.self, Custom(g.name), FALSE, Append(nested_structs, r.val)))

\* variant: analyze_mixed_object_types without `nested_structs.push(unified_struct)`
analyze_mixed_object_types_NoPush(h, self, arr, field_name, nested_structs) ==
  IF MostKeysCommon(CollectKeys(arr, 1, NoKeys))
  THEN UnifiedItem_NoPush(
         h, generate_nested_struct_name(self, field_name \o << "_","i","t","e","m" >>),
         arr, nested_structs)
  ELSE TypeRet(self, TAny, FALSE, nested_structs)

analyze_mixed_object_types(h, self, arr, field_name, nested_structs) ==
  IF MostKeysCommon(CollectKeys(arr, 1, NoKeys))
  THEN UnifiedItem(
         h, generate_nested_struct_name(self, field_name \o << "_","i","t","e","m" >>),
         arr, nested_structs)
  ELSE TypeRet(self, TAny, FALSE, nested_structs)

\* the two nested for loops of create_unified_struct_from_array: element i of
\* the array, entry j of its map
UnifiedLoop(h, self, arr, i, j, unified_fields, nested_structs) ==
  IF i > Len(arr)
  THEN Ret(self, NoError,
           [unified_fields |-> unified_fields, nested_structs |-> nested_structs])
  ELSE IF arr[i].t # "Object" \/ j > Len(arr[i].k)
       THEN UnifiedLoop(h, self, arr, i + 1, 1, unified_fields, nested_structs)
  ELSE Try(process_json_type_with_value(h, self, arr[i].e[j], arr[i].k[j],
                                        nested_structs),
           LAMBDA r :
             UnifiedLoop(h, r.self, arr, i, j + 1,
                         MergeField(unified_fields, arr[i].k[j], r.val.field_type,
                                    arr[i].e[j].t = "Null", r.val.is_array),
                         r.val.nested_structs))

create_unified_struct_from_array(h, self, arr, struct_name) ==
  Try(UnifiedLoop(h, self, arr, 1, 1, << >>, << >>),
      LAMBDA r :
        Ret(r.self, NoError,
            NewStruct(struct_name,
                      UnifiedFields(SortEntries(HashIter(h, r.val.unified_fields)),
                                    self.language),
                      r.val.nested_structs)))

\* variant: convert_to_struct without `self.generated_names.clear()`
convert_to_struct_NoClear(h, self, json_value, struct_name) ==
  convert_object_to_struct(
    h, [self EXCEPT !.current_depth = 0, !.current_path = << >>],
    json_value, struct_name)

\* convert_to_struct: the three resets, then the conversion of the root
convert_to_struct(h, self, json_value, struct_name) ==
  convert_object_to_struct(
    h,
    [self EXCEPT !.current_depth = 0, !.generated_names = {}, !.current_path = << >>],
    json_value, struct_name)

(***************************************************************************)
(* The calls the model makes: the value, the root name, the language and   *)
(* the depth bound of the converter.  Absent marks a key an object lacks.  *)
(***************************************************************************)
MaxDepthChoice == 3

MaxArrayLen == 3

Absent == [t |-> "Absent", k |-> << >>, e |-> << >>]

Key_a == << "a" >>

Key_a_dash_b == << "a","-","b" >>

Key_aB == << "a","B" >>

Key_a_b == << "a","_","b" >>

Key_x == << "x" >>

Key_y == << "y" >>

Key_z == << "z" >>

\* the object with the present ones of the given entries, whose keys ascend
ObjectOf(entries) ==
  LET present == SelectSeq(entries, LAMBDA p : p.v # Absent)
  IN  JObject([i \in DOMAIN present |-> present[i].k],
              [i \in DOMAIN present |-> present[i].v])

EmptyObject == JObject(<< >>, << >>)

EmptyArray == JArray(<< >>)

ObjX == JObject(<< Key_x >>, << JInt >>)

ObjXY == JObject(<< Key_x, Key_y >>, << JInt, JString >>)

RootOf(value) == JObject(<< Key_a >>, << value >>)

\* a root that holds n levels of objects, the root being the first
RECURSIVE ObjectChain(_)
ObjectChain(n) == IF n <= 1 THEN RootOf(JInt) ELSE RootOf(ObjectChain(n - 1))

\* the same with every nested object wrapped in an array
RECURSIVE ArrayChain(_)
ArrayChain(n) ==
  IF n <= 1 THEN RootOf(JInt) ELSE RootOf(JArray(<< ArrayChain(n - 1) >>))

\* the same with an empty object as the innermost value
RECURSIVE EmptyEndChain(_)
EmptyEndChain(n) ==
  IF n <= 1 THEN RootOf(EmptyObject) ELSE RootOf(EmptyEndChain(n - 1))

ChainInputs ==
  UNION { { ObjectChain(n), ArrayChain(n), EmptyEndChain(n) } :
          n \in 1..(MaxDepthChoice + 1) }

Atoms == { JNull, JBool, JInt, JBigInt, JFloat, JString }

NonObjectInputs == Atoms \cup { EmptyArray, JArray(<< JInt >>), JArray(<< ObjX >>) }

\* all sequences over S of a length up to n
RECURSIVE SeqsUpTo(_, _)
SeqsUpTo(S, n) ==
  IF n = 0 THEN { << >> }
  ELSE LET shorter == SeqsUpTo(S, n - 1)
       IN  shorter \cup { Append(s, x) : s \in { t \in shorter : Len(t) = n - 1 }, x \in S }

ElementPool == Atoms \cup { EmptyObject, ObjX }

ArrayInputs == { RootOf(JArray(elements)) : elements \in SeqsUpTo(ElementPool, MaxArrayLen) }

NestedPool ==
  { JNegInt, EmptyArray, JArray(<< JInt >>), JArray(<< JInt, JInt >>), JArray(<< JFloat >>),
    JArray(<< JInt, JFloat >>),
    JArray(<< JString >>), JArray(<< ObjX >>), JArray(<< JArray(<< JInt >>) >>) }

NestedArrayInputs ==
  { RootOf(JArray(<< e1, e2 >>)) : e1 \in NestedPool, e2 \in NestedPool }

ObjectPool ==
  { ObjectOf(<< [k |-> Key_x, v |-> vx], [k |-> Key_y, v |-> vy], [k |-> Key_z, v |-> vz] >>) :
      vx \in { Absent, JInt, JNull, ObjX, JArray(<< JInt >>) },
      vy \in { Absent, JInt, JString },
      vz \in { Absent, JInt } } \ { EmptyObject }

ObjectArrayInputs ==
  { RootOf(JArray(<< o1, o2 >>)) : o1 \in ObjectPool, o2 \in ObjectPool }
    \cup { RootOf(JArray(<< o1, o2, o3 >>)) :
             o1 \in { ObjX, ObjXY }, o2 \in { ObjX, ObjXY }, o3 \in ObjectPool }

\* arrays of three objects with the one key x, of every mixture of scalar kinds
TypedArrayInputs ==
  LET values == { JInt, JFloat, JString, JBool, JNull }
  IN  { RootOf(JArray(<< JObject(<< Key_x >>, << v1 >>), JObject(<< Key_x >>, << v2 >>),
                        JObject(<< Key_x >>, << v3 >>) >>)) :
          v1 \in values, v2 \in values, v3 \in values }

SiblingValues == { Absent, JInt, ObjX, JArray(<< ObjX, ObjXY >>) }

SiblingInputs ==
  { ObjectOf(<< [k |-> Key_a, v |-> v1], [k |-> Key_a_dash_b, v |-> v2],
                [k |-> Key_aB, v |-> v3], [k |-> Key_a_b, v |-> v4] >>) :
      v1 \in SiblingValues, v2 \in SiblingValues,
      v3 \in SiblingValues, v4 \in SiblingValues }

\* roots with one field, and roots whose one field is such a root
FieldInputs ==
  LET values == Atoms \cup { JNegInt, EmptyObject, EmptyArray, JArray(<< JNull >>),
                             JArray(<< JInt, JNull >>), JArray(<< JInt >>) }
  IN  { RootOf(v) : v \in values } \cup { RootOf(RootOf(v)) : v \in values }

RootName == << "R","o","o","t" >>

RootNames == { RootName, << "A","A" >> }

Languages == { "go", "rust", "typescript", "python", "generic" }

Call(values, names, languages, depths) ==
  [json_value : values, struct_name : names, language : languages, max_depth : depths]

Calls ==
  Call(ChainInputs, { RootName }, Languages, 0..MaxDepthChoice)
    \cup Call(NonObjectInputs, { RootName }, { "go" }, { 0, 1, DefaultMaxDepth })
    \cup Call(ArrayInputs, { RootName }, { "go" }, { DefaultMaxDepth })
    \cup Call(NestedArrayInputs, { RootName }, { "python" }, { 2, DefaultMaxDepth })
    \cup Call(ObjectArrayInputs, { RootName }, { "go" }, { 2, DefaultMaxDepth })
    \cup Call(SiblingInputs, RootNames, { "typescript" }, { DefaultMaxDepth })
    \cup Call(FieldInputs, { RootName }, { "go", "rust" }, { DefaultMaxDepth })
    \cup Call(TypedArrayInputs, { RootName }, { "rust" }, { DefaultMaxDepth })

\* the hash states of a run: HashIter gives the entries of a map in two orders
HashStates == { 0, 1 }

(***************************************************************************)
(* JsonToIrConverter::validate_nesting_depth and the generate methods of   *)
(* the Go and the Python generator, up to the conversion of the sample.    *)
(***************************************************************************)
\* set_max_depth
set_max_depth(self, max_depth) == [self EXCEPT !.max_depth = max_depth]

\* every current_depth that calculate_depth is called with on and below a value
RECURSIVE DepthsSeen(_, _)
DepthsSeen(value, current_depth) ==
  { current_depth }
    \cup UNION { DepthsSeen(value.e[i], current_depth + 1) : i \in DOMAIN value.e }

\* max_seen when calculate_depth has visited all of a value
calculate_depth(value, current_depth) ==
  CHOOSE d \in DepthsSeen(value, current_depth) :
    \A other \in DepthsSeen(value, current_depth) : other <= d

ExcessiveNesting == "JSON structure appears to have circular references or excessive nesting (>100 levels)"

TooDeeplyNested == "JSON structure is too deeply nested"

\* Err as soon as a value is met at a depth over 100, else Ok(max_depth)
validate_nesting_depth(json_value) ==
  IF calculate_depth(json_value, 0) > 100
  THEN [err |-> ExcessiveNesting, val |-> 0]
  ELSE [err |-> NoError, val |-> calculate_depth(json_value, 0)]

\* Option<String>
None == [some |-> FALSE, text |-> << >>]

Some(text) == [some |-> TRUE, text |-> text]

\* GenerationOptions::get_struct_name
get_struct_name(option, default) == IF option.some THEN option.text ELSE default

\* the converter a generator never made
NoConverter ==
  [language |-> "", max_depth |-> 0, current_depth |-> 0,
   generated_names |-> {}, current_path |-> << >>]

\* the converter of GoGenerator::generate for a pre-scanned depth
go_converter(max_depth) ==
  IF max_depth > 20 THEN with_max_depth("go", max_depth + 5) ELSE new("go")

\* the keywords of GoGenerator::new, the same words as get_reserved_keywords("go")
GoGeneratorKeywords == GoKeywords

\* GoGenerator::map_field_type: the Go type as text
map_field_type(field_type, is_optional, is_array) ==
  LET base_type == CASE field_type.kind = "String" -> << "s","t","r","i","n","g" >>
                     [] field_type.kind = "Integer" -> << "i","n","t","6","4" >>
                     [] field_type.kind = "Number" -> << "f","l","o","a","t","6","4" >>
                     [] field_type.kind = "Boolean" -> << "b","o","o","l" >>
                     [] field_type.kind = "Custom" -> field_type.name
                     [] field_type.kind = "Any" -> << "i","n","t","e","r","f","a","c","e","{","}" >>
      as_array == IF is_array THEN << "[", "]" >> \o base_type ELSE base_type
  IN  IF is_optional THEN << "*" >> \o as_array ELSE as_array

\* GoGenerator::generate_field without comments: the parts of the line
\* "\t{sanitized_name} {field_type} {json_tag}"
generate_field(field) ==
  [name |-> sanitize_identifier(field.code_name, GoGeneratorKeywords),
   field_type |-> map_field_type(field.field_type, field.is_optional, field.is_array),
   json_name |-> field.json_name,
   omitempty |-> field.is_optional]

\* GoGenerator::generate_struct without comments: the name of the line
\* "type {sanitized_name} struct {" and the lines of the fields
generate_struct(struct_def) ==
  [name |-> sanitize_identifier(to_pascal_case(struct_def.name), GoGeneratorKeywords),
   fields |-> [i \in DOMAIN struct_def.fields |-> generate_field(struct_def.fields[i])]]

\* the for loop of order_structs_by_dependency
RECURSIVE OrderLoop(_, _, _, _)
OrderLoop(nested_structs, i, ordered, visited) ==
  IF i > Len(nested_structs) THEN ordered
  ELSE IF nested_structs[i].name \in visited
       THEN OrderLoop(nested_structs, i + 1, ordered, visited)
  ELSE OrderLoop(nested_structs, i + 1, Append(ordered, nested_structs[i]),
                 visited \cup { nested_structs[i].name })

order_structs_by_dependency(main_struct) ==
  OrderLoop(main_struct.nested_structs, 1, << >>, {})

\* the structs that GoGenerator::generate writes after the package line, in
\* the order of the text: the ordered nested structs, then the main struct
GoCode(struct_def) ==
  [i \in DOMAIN order_structs_by_dependency(struct_def) |->
     generate_struct(order_structs_by_dependency(struct_def)[i])]
    \o << generate_struct(struct_def) >>

\* variant: GoGenerator::generate that rejects a pre-scanned depth of 50 as well
go_generate_RejectFrom50(h, scan, json_value, options) ==
  IF scan.err # NoError THEN Ret(NoConverter, scan.err, << >>)
  ELSE IF scan.val >= 50 THEN Ret(NoConverter, TooDeeplyNested, << >>)
  ELSE Try(convert_to_struct(
             h, go_converter(scan.val), json_value,
             convert_type_name(
               get_struct_name(options, << "G","e","n","e","r","a","t","e","d",
                                           "S","t","r","u","c","t" >>),
               "go")),
           LAMBDA r : Ret(r.self, NoError, GoCode(r.val)))

\* GoGenerator::generate, the text it returns as the structs it declares
go_generate(h, scan, json_value, options) ==
  IF scan.err # NoError THEN Ret(NoConverter, scan.err, << >>)
  ELSE IF scan.val > 50 THEN Ret(NoConverter, TooDeeplyNested, << >>)
  ELSE Try(convert_to_struct(
             h, go_converter(scan.val), json_value,
             convert_type_name(
               get_struct_name(options, << "G","e","n","e","r","a","t","e","d",
                                           "S","t","r","u","c","t" >>),
               "go")),
           LAMBDA r : Ret(r.self, NoError, GoCode(r.val)))

\* PythonGenerator::generate up to the `?` after convert_to_struct
python_generate(h, json_value, options) ==
  convert_to_struct(
    h, new("python"), json_value,
    convert_type_name(
      get_struct_name(options, << "G","e","n","e","r","a","t","e","d",
                                  "C","l","a","s","s" >>),
      "python"))

(***************************************************************************)
(* JsonToIrConverter::get_structure_stats on a value.                      *)
(***************************************************************************)
\* StructureStats::default()
DefaultStats ==
  [max_depth |-> 0, object_count |-> 0, array_count |-> 0, total_fields |-> 0,
   max_array_length |-> 0]

\* variant: analyze that adds the lengths of the arrays up
Visit_AddLengths(value, stats, current_depth) ==
  CASE value.t = "Object" ->
         [stats EXCEPT !.max_depth = Max({ @, current_depth }),
                       !.object_count = @ + 1,
                       !.total_fields = @ + Len(value.k)]
    [] value.t = "Array" ->
         [stats EXCEPT !.max_depth = Max({ @, current_depth }),
                       !.array_count = @ + 1,
                       !.max_array_length = @ + Len(value.e)]
    [] OTHER -> [stats EXCEPT !.max_depth = Max({ @, current_depth })]

\* analyze up to the loop over what the value holds
Visit(value, stats, current_depth) ==
  CASE value.t = "Object" ->
         [stats EXCEPT !.max_depth = Max({ @, current_depth }),
                       !.object_count = @ + 1,
                       !.total_fields = @ + Len(value.k)]
    [] value.t = "Array" ->
         [stats EXCEPT !.max_depth = Max({ @, current_depth }),
                       !.array_count = @ + 1,
                       !.max_array_length = Max({ @, Len(value.e) })]
    [] OTHER -> [stats EXCEPT !.max_depth = Max({ @, current_depth })]

\* the loops of analyze over the values of an object or an array, from the
\* i-th on, and analyze itself
RECURSIVE AnalyzeLoop(_, _, _, _)
RECURSIVE analyze(_, _, _)
AnalyzeLoop(value, i, stats, current_depth) ==
  IF i > Len(value.e) THEN stats
  ELSE AnalyzeLoop(value, i + 1, analyze(value.e[i], stats, current_depth + 1),
                   current_depth)

analyze(value, stats, current_depth) ==
  AnalyzeLoop(value, 1, Visit(value, stats, current_depth), current_depth)

get_structure_stats(json_value) == analyze(json_value, DefaultStats, 0)

(***************************************************************************)
(* The state: one converter, the arguments of the call it is about to get  *)
(* or has got, and what the call returned; the calls made so far; a second *)
(* converter with its last call; a name conversion; the calls of the depth *)
(* scan still to make and the deepest level it has seen.                   *)
(***************************************************************************)
VARIABLES converter, json_value, struct_name, result, pc, calls, peer, naming, walk

vars == << converter, json_value, struct_name, result, pc, calls, peer, naming, walk >>

NoResult == [err |-> "None", val |-> << >>]

\* a second converter that is not used
NoPeer ==
  [converter |-> NoConverter, json_value |-> JNull, struct_name |-> << >>,
   result |-> NoResult, calls |-> 0]

\* no name conversion
NoNaming ==
  [input |-> << >>, language |-> "", convention |-> "", output |-> << >>]

\* no walk over a value is under way
NoWalk == [todo |-> << >>, max_seen |-> 0]

\* a converter as JsonToIrConverter::new or ::with_max_depth builds it
Init ==
  /\ \E c \in Calls :
       /\ converter = IF c.max_depth = DefaultMaxDepth THEN new(c.language)
                      ELSE with_max_depth(c.language, c.max_depth)
       /\ json_value = c.json_value
       /\ struct_name = c.struct_name
  /\ result = NoResult
  /\ pc = "ready"
  /\ calls = 0
  /\ peer = NoPeer
  /\ naming = NoNaming
  /\ walk = NoWalk

\* the call has returned r: the converter as the call left it, and the Result
Returned(r) ==
  /\ converter' = r.self
  /\ result' = [err |-> r.err, val |-> r.val]

\* converter.convert_to_struct(&json_value, &struct_name)
ConvertToStruct ==
  /\ pc = "ready"
  /\ \E h \in HashStates :
       Returned(convert_to_struct(h, converter, json_value, struct_name))
  /\ pc' = "done"
  /\ calls' = calls + 1
  /\ UNCHANGED << json_value, struct_name, peer, naming, walk >>

Next == ConvertToStruct

Spec == Init /\ [][Next]_vars

(***************************************************************************)
(* A converter that is used again, next to a second converter: the calls   *)
(* of the two interleave in every order.                                   *)
(***************************************************************************)
MaxCalls == 3

ReuseInputs ==
  { RootOf(JInt), RootOf(ObjX), ObjectChain(3), JString,
    RootOf(JArray(<< ObjX, ObjX >>)),
    ObjectOf(<< [k |-> Key_a, v |-> ObjX], [k |-> Key_a_dash_b, v |-> ObjX] >>) }

ReuseDepths == { 2, DefaultMaxDepth }

PeerInputs == { RootOf(ObjX), ObjectChain(3) }

InitReuse ==
  /\ \E c \in Call(ReuseInputs, RootNames, { "go" }, ReuseDepths) :
       /\ converter = IF c.max_depth = DefaultMaxDepth THEN new(c.language)
                      ELSE with_max_depth(c.language, c.max_depth)
       /\ json_value = c.json_value
       /\ struct_name = c.struct_name
  /\ result = NoResult
  /\ pc = "ready"
  /\ calls = 0
  /\ peer = [NoPeer EXCEPT !.converter = with_max_depth("python", 2)]
  /\ naming = NoNaming
  /\ walk = NoWalk

\* the caller takes the arguments of the next call on the same converter
CallAgain ==
  /\ pc = "done"
  /\ calls + peer.calls < MaxCalls
  /\ \E v \in ReuseInputs, name \in RootNames :
       /\ json_value' = v
       /\ struct_name' = name
  /\ result' = NoResult
  /\ pc' = "ready"
  /\ UNCHANGED << converter, calls, peer, naming, walk >>

\* converter.set_max_depth(d) between two calls
SetMaxDepth ==
  /\ pc = "ready"
  /\ calls > 0
  /\ \E d \in ReuseDepths \ { converter.max_depth } :
       converter' = set_max_depth(converter, d)
  /\ UNCHANGED << json_value, struct_name, result, pc, calls, peer, naming, walk >>

\* the second converter has returned r from a call on v
PeerReturned(r, v) ==
  peer' = [converter |-> r.self, json_value |-> v, struct_name |-> RootName,
           result |-> [err |-> r.err, val |-> r.val], calls |-> peer.calls + 1]

\* a call of convert_to_struct on the second converter
PeerConvertToStruct ==
  /\ calls + peer.calls < MaxCalls
  /\ \E v \in PeerInputs, h \in HashStates :
       PeerReturned(convert_to_struct(h, peer.converter, v, RootName), v)
  /\ UNCHANGED << converter, json_value, struct_name, result, pc, calls, naming, walk >>

NextReuse == ConvertToStruct \/ CallAgain \/ SetMaxDepth \/ PeerConvertToStruct

SpecReuse == InitReuse /\ [][NextReuse]_vars

(***************************************************************************)
(* The generators: a sample value and the struct_name option, then         *)
(* generate of the Go or of the Python generator.                          *)
(***************************************************************************)
\* n arrays, one in the other, around a number
RECURSIVE NestedArrays(_)
NestedArrays(n) == IF n = 0 THEN JInt ELSE JArray(<< NestedArrays(n - 1) >>)

\* samples that are objects, and arrays nested up to the depths at which the
\* Go generator raises the depth bound
GeneratorInputs ==
  UNION { { ObjectChain(n), EmptyEndChain(n), ArrayChain((n + 1) \div 2) } : n \in 1..6 }
    \cup { NestedArrays(n) : n \in 1..40 }

InitGenerate ==
  /\ json_value \in GeneratorInputs
  /\ struct_name \in { None, Some(RootName) }
  /\ converter = NoConverter
  /\ result = NoResult
  /\ pc = "generate"
  /\ calls = 0
  /\ peer = NoPeer
  /\ naming = NoNaming
  /\ walk = NoWalk

\* GoGenerator::generate(&json_value, &options)
GoGenerate ==
  /\ pc = "generate"
  /\ \E h \in HashStates :
       Returned(go_generate(h, validate_nesting_depth(json_value), json_value,
                            struct_name))
  /\ pc' = "go_generated"
  /\ UNCHANGED << json_value, struct_name, calls, peer, naming, walk >>

\* PythonGenerator::generate(&json_value, &options)
PythonGenerate ==
  /\ pc = "generate"
  /\ \E h \in HashStates : Returned(python_generate(h, json_value, struct_name))
  /\ pc' = "python_generated"
  /\ UNCHANGED << json_value, struct_name, calls, peer, naming, walk >>

NextGenerate == GoGenerate \/ PythonGenerate

SpecGenerate == InitGenerate /\ [][NextGenerate]_vars

(***************************************************************************)
(* validate_nesting_depth call by call: todo holds the calls of            *)
(* calculate_depth that are still to be made, the next one first, which is *)
(* the order in which the recursion makes them; then the Go generator on   *)
(* the depth that the pre-scan returned.                                   *)
(***************************************************************************)
\* a value in an array or in an object with the one key a
Wrapped(kind, value) == IF kind = "Array" THEN JArray(<< value >>) ELSE RootOf(value)

\* n containers of a kind around a value
RECURSIVE NestedIn(_, _, _)
NestedIn(kind, n, value) ==
  IF n = 0 THEN value ELSE Wrapped(kind, NestedIn(kind, n - 1, value))

\* n containers of a kind around a number, built ten at a time
RECURSIVE DeepChain(_, _)
DeepChain(kind, n) ==
  IF n <= 10 THEN NestedIn(kind, n, JInt)
  ELSE CHOOSE outer \in { NestedIn(kind, 10, inner) : inner \in { DeepChain(kind, n - 10) } } :
         TRUE

\* the levels of the samples: around the limits 50 and 100, and shallow ones
ArrayDepths == (0..3) \cup (48..53) \cup (98..103)

ObjectDepths == (1..4) \cup (51..53) \cup { 60 } \cup (100..102)

\* samples with the level of their deepest value and of their deepest
\* container, the root being level 0:
\* chains, and objects of two fields of which the first or the second is
\* the deeper one
ScanSamples ==
  { [value |-> DeepChain("Array", n), deepest |-> n, container |-> Max({ n - 1, 0 })] :
      n \in ArrayDepths }
    \cup { [value |-> DeepChain("Object", n), deepest |-> n, container |-> n - 1] :
             n \in ObjectDepths }
    \cup { [value |-> JObject(<< Key_x, Key_y >>,
                               << DeepChain("Array", n), DeepChain("Array", m) >>),
             deepest |-> 1 + Max({ n, m }), container |-> Max({ n, m })] :
             n \in 0..2, m \in 0..2 }
    \cup { [value |-> JArray(<< EmptyObject, EmptyArray >>), deepest |-> 1,
             container |-> 1] }

InitScan ==
  /\ \E sample \in ScanSamples : json_value = sample.value
  /\ struct_name = None
  /\ converter = NoConverter
  /\ result = NoResult
  /\ pc = "scan"
  /\ calls = 0
  /\ peer = NoPeer
  /\ naming = NoNaming
  /\ walk = NoWalk

\* JsonToIrConverter::validate_nesting_depth(&json_value): max_depth is 0 and
\* calculate_depth is called with the value and the depth 0
ValidateNestingDepth ==
  /\ pc = "scan"
  /\ walk' = [todo |-> << [value |-> json_value, current_depth |-> 0] >>, max_seen |-> 0]
  /\ pc' = "scanning"
  /\ UNCHANGED << converter, json_value, struct_name, result, calls, peer, naming >>

\* the calls of calculate_depth on the elements of a container
CallsBelow(call) ==
  [i \in DOMAIN call.value.e |->
     [value |-> call.value.e[i], current_depth |-> call.current_depth + 1]]

\* one call of calculate_depth: max_seen, the check against 100, and the
\* calls on what the value holds; an Err goes up through every caller
CalculateDepth ==
  /\ pc = "scanning"
  /\ walk.todo # << >>
  /\ IF Head(walk.todo).current_depth > 100
     THEN /\ walk' = [todo |-> << >>,
                      max_seen |-> Max({ walk.max_seen, Head(walk.todo).current_depth })]
          /\ result' = [err |-> ExcessiveNesting, val |-> << >>]
          /\ pc' = "scanned"
     ELSE /\ walk' = [todo |-> CallsBelow(Head(walk.todo)) \o Tail(walk.todo),
                      max_seen |-> Max({ walk.max_seen, Head(walk.todo).current_depth })]
          /\ UNCHANGED << result, pc >>
  /\ UNCHANGED << converter, json_value, struct_name, calls, peer, naming >>

\* every call has returned Ok: validate_nesting_depth returns Ok(max_depth)
ValidateNestingDepthReturn ==
  /\ pc = "scanning"
  /\ walk.todo = << >>
  /\ result' = [err |-> NoError, val |-> walk.max_seen]
  /\ pc' = "scanned"
  /\ UNCHANGED << converter, json_value, struct_name, calls, peer, naming, walk >>

\* GoGenerator::generate from the return of validate_nesting_depth on
GoGenerateScanned ==
  /\ pc = "scanned"
  /\ \E h \in HashStates : Returned(go_generate(h, result, json_value, struct_name))
  /\ pc' = "go_generated"
  /\ UNCHANGED << json_value, struct_name, calls, peer, naming, walk >>

NextScan ==
  ValidateNestingDepth \/ CalculateDepth \/ ValidateNestingDepthReturn \/ GoGenerateScanned

SpecScan == InitScan /\ [][NextScan]_vars

(***************************************************************************)
(* get_structure_stats on its own: a value, then its statistics.           *)
(***************************************************************************)
\* the second sample of test_structure_stats_calculation, with the keys x, y
StatsTestSample ==
  JObject(<< Key_x, Key_y >>,
          << JArray(<< JInt, JInt, JInt >>), JArray(<< ObjX, ObjX >>) >>)

StatsInputs ==
  ArrayInputs \cup NestedArrayInputs \cup ObjectArrayInputs \cup SiblingInputs
    \cup NonObjectInputs \cup ChainInputs \cup { StatsTestSample }

InitStats ==
  /\ json_value \in StatsInputs
  /\ struct_name = << >>
  /\ converter = NoConverter
  /\ result = NoResult
  /\ pc = "stats"
  /\ calls = 0
  /\ peer = NoPeer
  /\ naming = NoNaming
  /\ walk = NoWalk

\* JsonToIrConverter::get_structure_stats(&json_value)
GetStructureStats ==
  /\ pc = "stats"
  /\ result' = [err |-> NoError, val |-> get_structure_stats(json_value)]
  /\ pc' = "stats_done"
  /\ UNCHANGED << converter, json_value, struct_name, calls, peer, naming, walk >>

NextStats == GetStructureStats

SpecStats == InitStats /\ [][NextStats]_vars

(***************************************************************************)
(* The name conversions on their own: a text and a language, then          *)
(* convert_field_name or convert_type_name.                                *)
(***************************************************************************)
MaxTextLen == 3

TextChars == { "a", "B", "1", "_", "-", "$", NonAsciiLower, NonAsciiNumeric }

\* the reserved words of a language, as they are, in lowercase and in
\* lowercase with a capital first letter
KeywordTexts(language) ==
  UNION { { word, StrToLower(word), capitalize_word(word) } :
          word \in get_reserved_keywords(language) }

InitNames ==
  /\ \E language \in Languages :
       \E input \in SeqsUpTo(TextChars, MaxTextLen) \cup KeywordTexts(language) :
         naming = [input |-> input, language |-> language,
                   convention |-> "", output |-> << >>]
  /\ pc = "name"
  /\ converter = NoConverter
  /\ json_value = JNull
  /\ struct_name = << >>
  /\ result = NoResult
  /\ calls = 0
  /\ peer = NoPeer
  /\ walk = NoWalk

\* NameConverter::convert_field_name(&input, &language)
ConvertFieldName ==
  /\ pc = "name"
  /\ naming' = [naming EXCEPT
                  !.convention = "field",
                  !.output = convert_field_name(naming.input, naming.language)]
  /\ pc' = "named"
  /\ UNCHANGED << converter, json_value, struct_name, result, calls, peer, walk >>

\* NameConverter::convert_type_name(&input, &language)
ConvertTypeName ==
  /\ pc = "name"
  /\ naming' = [naming EXCEPT
                  !.convention = "type",
                  !.output = convert_type_name(naming.input, naming.language)]
  /\ pc' = "named"
  /\ UNCHANGED << converter, json_value, struct_name, result, calls, peer, walk >>

NextNames == ConvertFieldName \/ ConvertTypeName

SpecNames == InitNames /\ [][NextNames]_vars

(***************************************************************************)
(* What the properties speak of: the records of a result and the shape of  *)
(* the value that was converted.                                           *)
(***************************************************************************)
Done == pc = "done"

Succeeded == pc = "done" /\ result.err = NoError

\* the names of a record and of the records below it, one entry per record
RECURSIVE StructNames(_)
RECURSIVE NestedNames(_)
StructNames(def) == << def.name >> \o NestedNames(def.nested_structs)

NestedNames(structs) ==
  IF Len(structs) = 0 THEN << >>
  ELSE StructNames(structs[1]) \o NestedNames(Tail(structs))

\* a record and the records below it
RECURSIVE AllStructs(_)
AllStructs(def) ==
  { def } \cup UNION { AllStructs(def.nested_structs[i]) : i \in DOMAIN def.nested_structs }

\* the records below a record
StructsBelow(def) ==
  UNION { AllStructs(def.nested_structs[i]) : i \in DOMAIN def.nested_structs }

FieldOf(def, key) ==
  def.fields[CHOOSE i \in DOMAIN def.fields : def.fields[i].json_name = key]

HasField(def, key) == \E i \in DOMAIN def.fields : def.fields[i].json_name = key

IsScalar(v) == IsNumber(v) \/ v.t \in { "Bool", "String" }

IsRecordValue(v) == v.t = "Object" /\ Len(v.k) > 0

\* the number of objects that become records on the longest path below a
\* value: a non-empty object counts, an array is passed through
RECURSIVE RecordLevels(_)
RecordLevels(v) ==
  LET below == Max({ RecordLevels(v.e[i]) : i \in DOMAIN v.e })
  IN  IF IsRecordValue(v) THEN 1 + below
      ELSE IF v.t = "Array" THEN below
      ELSE 0

\* the same for a root object, which counts even when it is empty
RootLevels(v) == 1 + Max({ RecordLevels(v.e[i]) : i \in DOMAIN v.e })

\* a value made of non-empty objects and scalars only
RECURSIVE IsObjectTree(_)
IsObjectTree(v) ==
  /\ IsRecordValue(v)
  /\ \A i \in DOMAIN v.e : IsScalar(v.e[i]) \/ IsObjectTree(v.e[i])

C2_OnlyTwoErrors ==
  Done
    => /\ result.err \in { NoError, ExpectedObject, MaxDepthExceeded }
       /\ json_value.t # "Object" => result.err # NoError
       /\ json_value.t = "Object" /\ RootLevels(json_value) <= converter.max_depth
            => result.err = NoError

\* an array of a null, a string and a record is absorbed
C2_Witness ==
  /\ Succeeded
  /\ \E i \in DOMAIN json_value.e :
       LET v == json_value.e[i]
       IN  /\ v.t = "Array"
           /\ \E j \in DOMAIN v.e : v.e[j].t = "Null"
           /\ \E j \in DOMAIN v.e : v.e[j].t = "String"
           /\ \E j \in DOMAIN v.e : IsRecordValue(v.e[j])

(***************************************************************************)
(* C3: no two records of a result have the same name, the root record,     *)
(* the nested records of every level and the merged records counted.       *)
(***************************************************************************)
NoRepeat(s) == \A i, j \in DOMAIN s : s[i] = s[j] => i = j

C3_NameUniqueness == Succeeded => NoRepeat(StructNames(result.val))

(***************************************************************************)
(* C4: the name of every Custom field type of a record is the name of a    *)
(* record in the nested records of that record, at some level below it.    *)
(***************************************************************************)
C4_ReferenceClosure ==
  Succeeded
    => \A def \in AllStructs(result.val) :
         \A i \in DOMAIN def.fields :
           def.fields[i].field_type.kind = "Custom"
             => \E below \in StructsBelow(def) :
                  below.name = def.fields[i].field_type.name

\* a merged record that itself has a Custom field
C4_Witness ==
  /\ Succeeded
  /\ \E i \in DOMAIN result.val.fields :
       LET f == result.val.fields[i]
       IN  /\ f.is_array /\ f.field_type.kind = "Custom"
           /\ \E def \in StructsBelow(result.val) :
                /\ def.name = f.field_type.name
                /\ \E j \in DOMAIN def.fields : def.fields[j].field_type.kind = "Custom"

(***************************************************************************)
(* C5: the fields of every record of a result, root, nested or merged,     *)
(* are in strictly ascending order of their JSON key.                      *)
(***************************************************************************)
C5_FieldOrder ==
  Succeeded
    => \A def \in AllStructs(result.val) :
         \A i \in 1..(Len(def.fields) - 1) :
           StrLess(def.fields[i].json_name, def.fields[i + 1].json_name)

\* a merged record with three fields, under a root with several fields
C5_Witness ==
  /\ Succeeded
  /\ \E i \in DOMAIN result.val.fields :
       LET f == result.val.fields[i]
       IN  /\ f.is_array /\ f.field_type.kind = "Custom"
           /\ \E def \in StructsBelow(result.val) :
                def.name = f.field_type.name /\ Len(def.fields) = 3

(***************************************************************************)
(* C6: a root field whose value is a non-empty object under key k has the  *)
(* type Custom(N), N being the type name of k, when no other record has    *)
(* that name.                                                              *)
(***************************************************************************)
C6_NestedRecordName ==
  Succeeded
    => \A i \in DOMAIN json_value.k :
         LET f == FieldOf(result.val, json_value.k[i])
             N == convert_type_name(json_value.k[i], converter.language)
         IN  /\ IsRecordValue(json_value.e[i])
             /\ \A def \in AllStructs(result.val) :
                  def.name = N => f.field_type = Custom(def.name)
             => f.field_type = Custom(N)

(***************************************************************************)
(* C7: a non-empty array of scalars of one kind (strings, integers,        *)
(* fractional numbers or booleans) gives a field of that kind with         *)
(* is_array set.                                                           *)
(***************************************************************************)
\* the kind of a scalar value
ScalarKind(v) ==
  CASE v.t = "String" -> TString
    [] v.t = "Bool" -> TBoolean
    [] v.t = "Float" -> TNumber
    [] v.t \in { "PosInt", "PosIntBig", "NegInt" } -> TInteger
    [] OTHER -> TAny

IsHomogeneousScalarArray(v) ==
  /\ v.t = "Array" /\ Len(v.e) > 0
  /\ \A j \in DOMAIN v.e : IsScalar(v.e[j]) /\ ScalarKind(v.e[j]) = ScalarKind(v.e[1])

C7_HomogeneousArray ==
  Succeeded
    => \A i \in DOMAIN json_value.k :
         IsHomogeneousScalarArray(json_value.e[i])
           => LET f == FieldOf(result.val, json_value.k[i])
              IN  f.field_type = ScalarKind(json_value.e[i].e[1]) /\ f.is_array

\* an array of integers of both widths
C7_Witness ==
  /\ Succeeded
  /\ \E i \in DOMAIN json_value.k :
       /\ IsHomogeneousScalarArray(json_value.e[i])
       /\ \E j \in DOMAIN json_value.e[i].e : json_value.e[i].e[j] = JBigInt
       /\ \E j \in DOMAIN json_value.e[i].e : json_value.e[i].e[j] = JInt
       /\ FieldOf(result.val, json_value.k[i]).field_type = TInteger

(***************************************************************************)
(* C8: an array of integers and fractional numbers only, with at least one *)
(* of each, has the element type Number, in any order and with any counts. *)
(***************************************************************************)
IsIntegerFloatArray(v) ==
  /\ v.t = "Array"
  /\ \A j \in DOMAIN v.e : IsNumber(v.e[j])
  /\ \E j \in DOMAIN v.e : ScalarKind(v.e[j]) = TInteger
  /\ \E j \in DOMAIN v.e : ScalarKind(v.e[j]) = TNumber

C8_IntegerNumberWidening ==
  Succeeded
    => \A i \in DOMAIN json_value.k :
         IsIntegerFloatArray(json_value.e[i])
           => LET f == FieldOf(result.val, json_value.k[i])
              IN  f.field_type = TNumber /\ f.is_array

\* two integers before one fractional number
C8_Witness ==
  /\ Succeeded
  /\ \E i \in DOMAIN json_value.k :
       /\ json_value.e[i] = JArray(<< JInt, JInt, JFloat >>)
       /\ FieldOf(result.val, json_value.k[i]).field_type = TNumber

(***************************************************************************)
(* C9: an array that mixes String with another kind, Boolean with Integer  *)
(* or Number, more than two primitive kinds, an Any-classified element     *)
(* (null, empty object) with another kind, or records with primitives, is  *)
(* an array of Any.                                                        *)
(***************************************************************************)
\* the kind of an element that is no array: a record, Any or a scalar kind
ElementKind(v) ==
  IF IsRecordValue(v) THEN "Record"
  ELSE IF v.t \in { "Null", "Object" } THEN "Any"
  ELSE ScalarKind(v).kind

IsHeterogeneousArray(v) ==
  /\ v.t = "Array"
  /\ \A j \in DOMAIN v.e : v.e[j].t # "Array"
  /\ LET kinds == { ElementKind(v.e[j]) : j \in DOMAIN v.e }
         primitive == kinds \ { "Record" }
     IN  \/ "String" \in kinds /\ Cardinality(kinds) > 1
         \/ "Boolean" \in kinds /\ kinds \cap { "Integer", "Number" } # {}
         \/ Cardinality(primitive \ { "Any" }) > 2
         \/ "Any" \in kinds /\ Cardinality(kinds) > 1
         \/ "Record" \in kinds /\ primitive # {}

C9_HeterogeneousArray ==
  Succeeded
    => \A i \in DOMAIN json_value.k :
         IsHeterogeneousArray(json_value.e[i])
           => LET f == FieldOf(result.val, json_value.k[i])
              IN  f.field_type = TAny /\ f.is_array

\* the array [1, "s", true]
C9_Witness ==
  /\ Succeeded
  /\ \E i \in DOMAIN json_value.k :
       /\ json_value.e[i] = JArray(<< JInt, JString, JBool >>)
       /\ FieldOf(result.val, json_value.k[i]).field_type = TAny

(***************************************************************************)
(* C10: a field whose value is an empty object is Any and no array, and    *)
(* no record is made for it: no nested record has zero fields; a field     *)
(* whose value is an empty array is Any with is_array set.                 *)
(***************************************************************************)
StructNamed(def, type_name) ==
  CHOOSE below \in StructsBelow(def) : below.name = type_name

\* the fields of a record agree with the empty containers of the object it
\* was made from, and so do the records of the objects nested in it
RECURSIVE EmptyContainersAreAny(_, _)
EmptyContainersAreAny(obj, def) ==
  \A i \in DOMAIN obj.k :
    LET v == obj.e[i]
        f == FieldOf(def, obj.k[i])
    IN  /\ v = EmptyObject => f.field_type = TAny /\ ~f.is_array
        /\ v = EmptyArray => f.field_type = TAny /\ f.is_array
        /\ IsRecordValue(v) => EmptyContainersAreAny(v, StructNamed(def, f.field_type.name))

C10_EmptyContainers ==
  Succeeded
    => /\ EmptyContainersAreAny(json_value, result.val)
       /\ \A def \in StructsBelow(result.val) : Len(def.fields) > 0

\* an empty object two levels below the root
C10_Witness ==
  /\ Succeeded
  /\ \E i \in DOMAIN json_value.k :
       /\ IsRecordValue(json_value.e[i])
       /\ \E j \in DOMAIN json_value.e[i].k : json_value.e[i].e[j] = EmptyObject
       /\ StructsBelow(result.val) # {}

(***************************************************************************)
(* C11: a field of a record made from an object (the root or an object     *)
(* nested in it) is optional exactly when its value is null or is an       *)
(* array with a null element; a null value is typed Any and is no array.   *)
(***************************************************************************)
HasNullElement(v) == v.t = "Array" /\ \E j \in DOMAIN v.e : v.e[j].t = "Null"

RECURSIVE OptionalIffNull(_, _)
OptionalIffNull(obj, def) ==
  \A i \in DOMAIN obj.k :
    LET v == obj.e[i]
        f == FieldOf(def, obj.k[i])
    IN  /\ f.is_optional <=> (v.t = "Null" \/ HasNullElement(v))
        /\ v.t = "Null" => f.field_type = TAny /\ ~f.is_array
        /\ IsRecordValue(v) => OptionalIffNull(v, StructNamed(def, f.field_type.name))

C11_Optionality == Succeeded => OptionalIffNull(json_value, result.val)

\* an array with a null element one level below the root
C11_Witness ==
  /\ Succeeded
  /\ \E i \in DOMAIN json_value.k :
       /\ IsRecordValue(json_value.e[i])
       /\ \E j \in DOMAIN json_value.e[i].k :
            /\ json_value.e[i].e[j] = JArray(<< JInt, JNull >>)
            /\ FieldOf(StructNamed(result.val,
                                   FieldOf(result.val, json_value.k[i]).field_type.name),
                       json_value.e[i].k[j]).is_optional

(***************************************************************************)
(* Arrays of records, as the properties of unification speak of them.      *)
(***************************************************************************)
\* an array of two or more non-empty objects
IsObjectArray(v) ==
  /\ v.t = "Array" /\ Len(v.e) >= 2
  /\ \A j \in DOMAIN v.e : IsRecordValue(v.e[j])

UnionKeys(v) == UNION { Range(v.e[j].k) : j \in DOMAIN v.e }

CommonKeys(v) == { key \in UnionKeys(v) : \A j \in DOMAIN v.e : key \in Range(v.e[j].k) }

\* the common keys are more than half of all keys
SharesMostKeys(v) ==
  CommonKeys(v) # {} /\ 2 * Cardinality(CommonKeys(v)) > Cardinality(UnionKeys(v))

DistinctShapes(v) == \E i, j \in DOMAIN v.e : Range(v.e[i].k) # Range(v.e[j].k)

\* the values a key has in the objects of an array
Occurrences(v, key) ==
  UNION { { v.e[i].e[j] : j \in { n \in DOMAIN v.e[i].k : v.e[i].k[n] = key } } :
          i \in DOMAIN v.e }

\* how many records of a result have a name
NameCount(def, type_name) ==
  Cardinality({ n \in DOMAIN StructNames(def) : StructNames(def)[n] = type_name })

C13_MergedOptionality ==
  Succeeded
    => \A i \in DOMAIN json_value.k :
         LET v == json_value.e[i]
             f == FieldOf(result.val, json_value.k[i])
         IN  IsObjectArray(v) /\ SharesMostKeys(v)
               => LET merged == StructNamed(result.val, f.field_type.name)
                  IN  \A n \in DOMAIN merged.fields :
                        LET key == merged.fields[n].json_name
                        IN  \/ key \notin CommonKeys(v)
                            \/ \E o \in Occurrences(v, key) : o.t = "Null"
                            => merged.fields[n].is_optional

ExampleInput == RootOf(JArray(<< ObjXY, ObjX >>))

IsExampleCall ==
  /\ json_value = ExampleInput
  /\ converter.max_depth = DefaultMaxDepth

IsPlainValue(v) ==
  \/ IsScalar(v) \/ v.t = "Null" \/ v = EmptyObject \/ v = EmptyArray
  \/ IsHomogeneousScalarArray(v)

PlainType(v) == IF IsHomogeneousScalarArray(v) THEN ScalarKind(v.e[1]) ELSE ScalarKind(v)

C20_MergedFieldType ==
  Succeeded
    => \A i \in DOMAIN json_value.k :
         LET v == json_value.e[i]
             f == FieldOf(result.val, json_value.k[i])
         IN  IsObjectArray(v) /\ SharesMostKeys(v)
               => LET merged == StructNamed(result.val, f.field_type.name)
                  IN  \A n \in DOMAIN merged.fields :
                        LET seen == Occurrences(v, merged.fields[n].json_name)
                            types == { PlainType(o) : o \in seen }
                        IN  (\A o \in seen : IsPlainValue(o))
                              => /\ Cardinality(types) = 1
                                   => merged.fields[n].field_type \in types
                                 /\ Cardinality(types) > 1 \/ TAny \in types
                                   => merged.fields[n].field_type = TAny

\* null, then integer, then integer: Any after the first object, Any at the end
C20_Witness ==
  /\ Succeeded
  /\ \E i \in DOMAIN json_value.k :
       LET v == json_value.e[i]
           f == FieldOf(result.val, json_value.k[i])
       IN  /\ v = JArray(<< JObject(<< Key_x >>, << JNull >>),
                            JObject(<< Key_x >>, << JInt >>),
                            JObject(<< Key_x >>, << JInt >>) >>)
           /\ f.field_type.kind = "Custom"
           /\ FieldOf(StructNamed(result.val, f.field_type.name), Key_x).field_type = TAny

(***************************************************************************)
(* C15: what convert_to_struct returns depends only on the value, the root *)
(* name, the language and the depth bound: a converter that has run other  *)
(* conversions, with or without success, returns what a new converter      *)
(* returns, and so does each of two converters whose calls interleave.     *)
(***************************************************************************)
\* what a converter that never ran returns
FreshResult(language, max_depth, value, name) ==
  { [err |-> convert_to_struct(h, with_max_depth(language, max_depth), value, name).err,
     val |-> convert_to_struct(h, with_max_depth(language, max_depth), value, name).val] :
      h \in HashStates }

C15_RunIsolation ==
  /\ Done
       => FreshResult(converter.language, converter.max_depth, json_value, struct_name)
            = { result }
  /\ peer.calls > 0
       => FreshResult(peer.converter.language, peer.converter.max_depth,
                      peer.json_value, peer.struct_name)
            = { peer.result }

\* the second call on a converter, after a call on the second converter
C15_Witness ==
  /\ Done /\ calls = 2 /\ peer.calls = 1
  /\ Succeeded
  /\ StructsBelow(result.val) # {}
  /\ converter.generated_names # {}

(***************************************************************************)
(* C16: convert_field_name and convert_type_name return, for every text    *)
(* and language, an identifier that is not empty, is made of the           *)
(* characters A-Z, a-z, 0-9 and _ only and does not start with a digit; a  *)
(* result that would start with a digit starts with an underscore, and an  *)
(* empty text or one of separators only gives "field".                     *)
(***************************************************************************)
Named == pc = "named"

AsciiWordChars == LowerChars \cup UpperChars \cup DigitChars \cup { "_" }

IsSeparatorText(s) == \A i \in DOMAIN s : ~is_alphanumeric[s[i]]

C17_KeywordSafety ==
  Named /\ naming.language \in { "go", "rust", "typescript", "python" }
    => \A word \in get_reserved_keywords(naming.language) :
         StrToLower(naming.output) # StrToLower(word)

\* a generator has returned
Generated == pc \in { "go_generated", "python_generated" }

(***************************************************************************)
(* C18: for a sample whose pre-scanned depth is 20 or more and that is not *)
(* rejected as too deep, the Go and the Python generator convert with a    *)
(* depth bound of the pre-scanned depth plus 5, and the conversion does    *)
(* not fail with the depth error.                                          *)
(***************************************************************************)
C18_AutoRaisedDepth ==
  ( /\ Generated
    /\ validate_nesting_depth(json_value).err = NoError
    /\ validate_nesting_depth(json_value).val >= 20
    /\ validate_nesting_depth(json_value).val <= 50 )
    => /\ converter.max_depth = validate_nesting_depth(json_value).val + 5
       /\ result.err # MaxDepthExceeded

(***************************************************************************)
(* C21: the element type of an array of primitive elements of two or more  *)
(* kinds is a function of the set of the kinds: Number for Integer with    *)
(* Number, else Any, whatever the order and the counts of the elements and *)
(* the iteration order of the map of the counts; runs that differ in the   *)
(* hash state only return the same.                                        *)
(***************************************************************************)
IsMixedPrimitiveArray(v) ==
  /\ v.t = "Array"
  /\ \A j \in DOMAIN v.e : v.e[j].t # "Array" /\ ~IsRecordValue(v.e[j])
  /\ Cardinality({ ElementKind(v.e[j]) : j \in DOMAIN v.e }) >= 2

\* the unified type as a function of the set of kinds
UnifiedOfKinds(kinds) == IF kinds = { "Integer", "Number" } THEN TNumber ELSE TAny

C21_DeterministicUnification ==
  Succeeded /\ (\E i \in DOMAIN json_value.e : IsMixedPrimitiveArray(json_value.e[i]))
    => /\ \A i \in DOMAIN json_value.k :
            IsMixedPrimitiveArray(json_value.e[i])
              => FieldOf(result.val, json_value.k[i]).field_type
                   = UnifiedOfKinds({ ElementKind(json_value.e[i].e[j]) :
                                      j \in DOMAIN json_value.e[i].e })
       /\ FreshResult(converter.language, converter.max_depth, json_value, struct_name)
            = { result }

\* a tie of two kinds, the kind seen first being the one that is not returned
C21_Witness ==
  /\ Succeeded
  /\ \E i \in DOMAIN json_value.k :
       /\ json_value.e[i] = JArray(<< JFloat, JInt >>)
       /\ FieldOf(result.val, json_value.k[i]).field_type = TNumber

\* validate_nesting_depth has returned
Scanned == pc = "scanned"

\* the Go generator has returned after a pre-scan call by call
ScannedAndGenerated == pc = "go_generated"

\* the level of the deepest value of a sample, the root being level 0
DeepestOf(value) == (CHOOSE sample \in ScanSamples : sample.value = value).deepest

(***************************************************************************)
(* C22: validate_nesting_depth returns an error exactly when the value     *)
(* holds a value more than 100 levels below the root; the Go generator     *)
(* rejects a sample whose pre-scanned depth is over 50 as too deeply       *)
(* nested without making a converter, and lets a sample of a depth up to   *)
(* 50 past this check.                                                     *)
(***************************************************************************)
C22_PreScanRejection ==
  /\ Scanned
       => /\ result.err # NoError <=> DeepestOf(json_value) > 100
          /\ result.err \in { NoError, ExcessiveNesting }
          /\ DeepestOf(json_value) <= 40 => result = validate_nesting_depth(json_value)
  /\ ScannedAndGenerated
       => /\ DeepestOf(json_value) > 100 => result.err = ExcessiveNesting
          /\ DeepestOf(json_value) \in 51..100
               => result.err = TooDeeplyNested /\ converter = NoConverter
          /\ DeepestOf(json_value) <= 50
               => result.err \notin { TooDeeplyNested, ExcessiveNesting }

\* rejected at the depth 51, and past the check at the depth 50
C22_Witness ==
  /\ ScannedAndGenerated
  /\ \/ DeepestOf(json_value) = 51 /\ result.err = TooDeeplyNested
     \/ DeepestOf(json_value) = 50 /\ result.err = ExpectedObject

\* the level of the deepest object or array of a sample
DeepestContainerOf(value) ==
  (CHOOSE sample \in ScanSamples : sample.value = value).container

(***************************************************************************)
(* C23: for a value of a depth up to 100 validate_nesting_depth returns    *)
(* the level of the deepest object or array, the root being level 0 and a  *)
(* scalar adding no level: N for a chain of objects whose innermost object *)
(* is N levels below the root.                                             *)
(***************************************************************************)
C23_PreScanDepthValue ==
  Scanned /\ DeepestOf(json_value) <= 100
    => result = [err |-> NoError, val |-> DeepestContainerOf(json_value)]

\* get_structure_stats has returned
StatsDone == pc = "stats_done"

\* the sum of a sequence of numbers
RECURSIVE SumSeq(_)
SumSeq(s) == IF Len(s) = 0 THEN 0 ELSE Head(s) + SumSeq(Tail(s))

\* the number of values of a kind in a value, the value itself included
RECURSIVE CountKind(_, _)
CountKind(v, kind) ==
  (IF v.t = kind THEN 1 ELSE 0) + SumSeq([i \in DOMAIN v.e |-> CountKind(v.e[i], kind)])

\* the sum of the numbers of keys of the objects in a value
RECURSIVE KeyCount(_)
KeyCount(v) == Len(v.k) + SumSeq([i \in DOMAIN v.e |-> KeyCount(v.e[i])])

\* the lengths of the arrays in a value
RECURSIVE ArrayLengths(_)
ArrayLengths(v) ==
  (IF v.t = "Array" THEN { Len(v.e) } ELSE {})
    \cup UNION { ArrayLengths(v.e[i]) : i \in DOMAIN v.e }

(***************************************************************************)
(* C24: get_structure_stats returns the number of objects of the value,    *)
(* the root included, as object_count, the number of arrays as             *)
(* array_count, the sum of the numbers of keys of the objects as           *)
(* total_fields and the length of the longest array, 0 without an array,   *)
(* as max_array_length.                                                    *)
(***************************************************************************)
C24_StructureStats ==
  StatsDone
    => /\ result.val.object_count = CountKind(json_value, "Object")
       /\ result.val.array_count = CountKind(json_value, "Array")
       /\ result.val.total_fields = KeyCount(json_value)
       /\ result.val.max_array_length = Max(ArrayLengths(json_value))

\* the sample of the test: three objects, two arrays, the longer of length 3
C24_Witness ==
  /\ StatsDone
  /\ json_value = StatsTestSample
  /\ result.val = [max_depth |-> 3, object_count |-> 3, array_count |-> 2,
                   total_fields |-> 4, max_array_length |-> 3]

(***************************************************************************)
(* C25: whenever convert_to_struct has returned, with Ok or with Err, the  *)
(* depth counter of the converter is 0 and its key path is empty.          *)
(***************************************************************************)
C25_BalancedDepthAndPath ==
  Done => converter.current_depth = 0 /\ converter.current_path = << >>

\* the number of arrays on the longest path below and with a value
RECURSIVE ArrayLevels(_)
ArrayLevels(v) ==
  (IF v.t = "Array" THEN 1 ELSE 0) + Max({ ArrayLevels(v.e[i]) : i \in DOMAIN v.e })

C27_NoUnreferencedRecords ==
  Succeeded
    => \A def \in AllStructs(result.val) :
         \A i \in DOMAIN def.nested_structs :
           \E j \in DOMAIN def.fields :
             def.fields[j].field_type = Custom(def.nested_structs[i].name)

\* a value without a record in it
RECURSIVE NoRecords(_)
NoRecords(v) == ~IsRecordValue(v) /\ \A i \in DOMAIN v.e : NoRecords(v.e[i])

\* the unified element type of an array without records, an inner array
\* standing for its own unified element type
RECURSIVE UnifiedType(_)
UnifiedType(v) ==
  LET types == { IF v.e[i].t = "Array" THEN UnifiedType(v.e[i])
                 ELSE IF v.e[i].t \in { "Null", "Object" } THEN TAny
                 ELSE ScalarKind(v.e[i]) : i \in DOMAIN v.e }
  IN  IF types = {} THEN TAny
      ELSE IF Cardinality(types) = 1 THEN CHOOSE type \in types : TRUE
      ELSE UnifiedOfKinds({ type.kind : type \in types })

IsArrayOfArrays(v) ==
  /\ v.t = "Array" /\ NoRecords(v)
  /\ \E j \in DOMAIN v.e : v.e[j].t = "Array"

NestedExample == RootOf(JArray(<< JArray(<< JInt, JInt >>), JArray(<< JInt >>) >>))

FlatExample == RootOf(JArray(<< JInt, JInt, JInt >>))

(***************************************************************************)
(* C28: the element type of a field whose value is an array with arrays in *)
(* it is the unification of the unified element types of the inner arrays, *)
(* and the field is an array once: the samples [[1,2],[3]] and [1,2,3]     *)
(* give the same Integer array field.                                      *)
(***************************************************************************)
C28_NestedArraysFlattened ==
  Succeeded
    => /\ \A i \in DOMAIN json_value.k :
            IsArrayOfArrays(json_value.e[i])
              => /\ FieldOf(result.val, json_value.k[i]).field_type
                      = UnifiedType(json_value.e[i])
                 /\ FieldOf(result.val, json_value.k[i]).is_array
       /\ json_value = NestedExample
            => /\ FreshResult(converter.language, converter.max_depth, FlatExample,
                              struct_name) = { result }
               /\ FieldOf(result.val, Key_a).field_type = TInteger

\* the sample [[1,2],[3]]
C28_Witness ==
  /\ Succeeded
  /\ json_value = NestedExample
  /\ FieldOf(result.val, Key_a).field_type = TInteger
  /\ FieldOf(result.val, Key_a).is_array
  /\ result.val.nested_structs = << >>

\* the elements of an array of objects that have a key
KeyHolders(v, key) == { i \in DOMAIN v.e : key \in Range(v.e[i].k) }

\* the elements in which the value of the key is a non-empty object
ObjectHolders(v, key) == { i \in KeyHolders(v, key) : IsRecordValue(ValueAt(v.e[i], key)) }

\* the field of a merged record has as type a record of the merged record's
\* nested records that has the keys of the object value
KeepsRecord(merged, field, value) ==
  /\ field.field_type.kind = "Custom"
  /\ \E n \in DOMAIN merged.nested_structs :
       /\ merged.nested_structs[n].name = field.field_type.name
       /\ { merged.nested_structs[n].fields[m].json_name :
              m \in DOMAIN merged.nested_structs[n].fields } = Range(value.k)

(***************************************************************************)
(* C29 as stated: in the merged record of an array of objects a key whose  *)
(* value is a non-empty object in two or more elements is Any, and a key   *)
(* whose value is a non-empty object in exactly one element has the record *)
(* of that object as its type.                                             *)
(***************************************************************************)
C29_ObjectKeysMerged ==
  Succeeded
    => \A i \in DOMAIN json_value.k :
         LET v == json_value.e[i]
             f == FieldOf(result.val, json_value.k[i])
         IN  IsObjectArray(v) /\ SharesMostKeys(v)
               => LET merged == StructNamed(result.val, f.field_type.name)
                  IN  \A n \in DOMAIN merged.fields :
                        LET key == merged.fields[n].json_name
                        IN  /\ Cardinality(ObjectHolders(v, key)) >= 2
                              => merged.fields[n].field_type = TAny
                            /\ Cardinality(ObjectHolders(v, key)) = 1
                              => \A j \in ObjectHolders(v, key) :
                                   KeepsRecord(merged, merged.fields[n],
                                               ValueAt(v.e[j], key))

(***************************************************************************)
(* C29 amended: the key keeps the record of the one object only when no    *)
(* other element has the key; when another element has the key, with a     *)
(* value of whatever kind, the key is Any.                                 *)
(***************************************************************************)
C29_ObjectKeysMergedAlone ==
  Succeeded
    => \A i \in DOMAIN json_value.k :
         LET v == json_value.e[i]
             f == FieldOf(result.val, json_value.k[i])
         IN  IsObjectArray(v) /\ SharesMostKeys(v)
               => LET merged == StructNamed(result.val, f.field_type.name)
                  IN  \A n \in DOMAIN merged.fields :
                        LET key == merged.fields[n].json_name
                        IN  /\ Cardinality(ObjectHolders(v, key)) >= 2
                              => merged.fields[n].field_type = TAny
                            /\ Cardinality(ObjectHolders(v, key)) = 1
                                 /\ Cardinality(KeyHolders(v, key)) = 1
                              => \A j \in ObjectHolders(v, key) :
                                   KeepsRecord(merged, merged.fields[n],
                                               ValueAt(v.e[j], key))
                            /\ Cardinality(ObjectHolders(v, key)) = 1
                                 /\ Cardinality(KeyHolders(v, key)) >= 2
                              => merged.fields[n].field_type = TAny

\* a merged record with a key that is an object in both elements
C29_Witness ==
  /\ Succeeded
  /\ \E i \in DOMAIN json_value.k :
       LET v == json_value.e[i]
           f == FieldOf(result.val, json_value.k[i])
       IN  /\ IsObjectArray(v) /\ SharesMostKeys(v)
           /\ Cardinality(ObjectHolders(v, Key_x)) = 2
           /\ f.field_type.kind = "Custom"
           /\ FieldOf(StructNamed(result.val, f.field_type.name), Key_x).field_type = TAny

\* the Go generator has returned code
GoGenerated == pc = "go_generated" /\ result.err = NoError

GoBuiltinTypes == { << "s","t","r","i","n","g" >>, << "i","n","t","6","4" >>, << "f","l","o","a","t","6","4" >>, << "b","o","o","l" >>, << "i","n","t","e","r","f","a","c","e","{","}" >> }

\* the type name in the text of a field type: without the * and the []
TypeNameIn(text) ==
  LET unpointed == IF Len(text) > 0 /\ text[1] = "*" THEN Tail(text) ELSE text
  IN  IF Len(unpointed) > 1 /\ unpointed[1] = "[" /\ unpointed[2] = "]"
      THEN Tail(Tail(unpointed)) ELSE unpointed

\* the custom type names that the fields of the declared structs use
UsedTypeNames(code) ==
  UNION { { TypeNameIn(code[n].fields[i].field_type) : i \in DOMAIN code[n].fields } :
          n \in DOMAIN code } \ GoBuiltinTypes

(***************************************************************************)
(* C30: in the code of the Go generator every custom type name that is the *)
(* type of a field is the name of exactly one declared struct, for the     *)
(* records of every level of the model.                                    *)
(***************************************************************************)
C30_ReferencesDeclared ==
  GoGenerated
    => \A type_name \in UsedTypeNames(result.val) :
         Cardinality({ n \in DOMAIN result.val : result.val[n].name = type_name }) = 1

====
